---- MODULE Spec2Model ----
(***************************************************************************)
(* Rotating moderation badges (projectpollify/MVP, src/modules/moderation). *)
(*                                                                         *)
(* The database is modelled by its committed rows (PostgreSQL, READ        *)
(* COMMITTED).  A handler whose statements all run in one transaction on   *)
(* one connection and that waits for nothing but row locks is one action,  *)
(* taken at its COMMIT.  A handler that reads on one connection and writes *)
(* on another (pool.query next to client.query), or that keeps a           *)
(* transaction open across calls that use other connections, is split at   *)
(* those points: what it read is kept in the handler's locals, and rows it *)
(* has written but not committed are kept apart (tmoPending) and lock out  *)
(* the handlers that need those rows.                                      *)
(*                                                                         *)
(* Time is in hours.  The clock jumps from deadline to deadline: what is    *)
(* modelled is the order of the events, not the distance between them.     *)
(***************************************************************************)
EXTENDS Integers, Sequences, FiniteSets, TLC

\* ---------------------------------------------------------------- bounds
MaxBadges == 3          \* no assignment starts once mod_badges has this many rows
MaxNow == 200           \* the clock stops here
MaxRand == 0            \* Math.random() returns 0/RandDen .. MaxRand/RandDen
MaxActions == 2         \* no decision starts once mod_actions has grown by this many rows
MaxBatch == 2           \* the decisions of a batch review (the route takes 1 to 20)
PoolSize == 3           \* the connections of the pool in the runs where the pool is short

\* ------------------------------------------------------- program constants
MIN_DUTY_DAYS == 3
MAX_DUTY_DAYS == 7
INVITATION_TIMEOUT_HOURS == 12
COOLDOWN_DAYS == 14
DEFAULT_BADGE_RATIO == 50
HoursPerDay == 24
MIN_ACTIONS_REQUIRED == 5
COMPLETION_REPUTATION == 5
ABANDONMENT_PENALTY == -3
PASS_PENALTY == 3
REMOVE_PENALTY == 1

\* ------------------------------------------------------------ the world
Users == {"u1", "u2", "u3"}
Scopes == {"g1", "p1"}

\* scope_type of a scope id: g1 is a group, p1 a pillar (topic area)
scopeType(s) == IF s = "g1" THEN "group" ELSE "pillar"

\* users.pillar_id: the users of pillar p1
pillarUsers == {"u2", "u3"}

\* the trailing window of activity, in days
ACTIVITY_DAYS == 30

\* the column defaults of a lazily created moderation_config row
DefaultConfig ==
  [badgeRatio |-> DEFAULT_BADGE_RATIO, minReputation |-> 0, minAccountAgeDays |-> 7,
   rewardReputation |-> COMPLETION_REPUTATION, penaltyReputation |-> ABANDONMENT_PENALTY,
   rewardPco |-> 5]

\* moderation_config after runInitialSetup: a row for every group and pillar;
\* the operators have set g1's ratio, p1 has the defaults
InitConfig == [s \in Scopes |-> IF s = "g1" THEN [DefaultConfig EXCEPT !.badgeRatio = 2] ELSE DefaultConfig]

\* the samples r of Math.random() are k / RandDen, k in RandNum
RandDen == 5
RandNum == 0 .. MaxRand

\* group_members of g1 when the engine starts
members_g1 == {"u1", "u2"}

\* a call of Math.ceil that rounds down
Floor(a, b) == a \div b

\* flagged content: one post of group g1, written by u3
Contents == {"c1"}
authorOf(c) == "u3"

\* content_flags.group_id of the flags on a content, and groups.pillar_id:
\* g1 belongs to a pillar other than p1, g2 (the group of c3) to p1
contentGroup(c) == IF c = "c3" THEN "g2" ELSE "g1"
groupPillar(g) == IF g = "g2" THEN "p1" ELSE "p0"

\* getModerationQueue's filter: a group badge lists the flags of its group,
\* a pillar badge those of the groups of its pillar
inQueueScope(c, s) ==
  IF scopeType(s) = "group" THEN contentGroup(c) = s ELSE groupPillar(contentGroup(c)) = s

\* processes: the cron sweeps (two overlapping runs of the expiry sweep), a
\* request handler for decline, pass and member-joined, one for decisions, one
\* for an accept whose transaction stays open for a while, one for batch
\* reviews and one for the moderation queue
Procs == {"bal", "req", "tmo", "exp1", "exp2", "dec", "acc", "bat", "que"}

VARIABLES
  now,          \* NOW(), in hours
  badges,       \* mod_badges, by id 1..Len
  invs,         \* badge_invitations; row i is the invitation of badge i
  members,      \* group_members of g1
  users,        \* users: mode, created_at, last activity (last_login, newest post)
  config,       \* moderation_config, by scope
  rep,          \* users.reputation_score
  history,      \* badge_history, append-only
  actions,      \* mod_actions rows written by decisions
  unresolved,   \* content_flags: unresolved flags per content
  hidden,       \* posts.is_hidden
  xfers,        \* transferToken calls: the badge, and whether the call went through
  tmoPending,   \* invitations updated by the open timeout-sweep transaction
  events,       \* what eventEmitter has published: which event, for which badge
  pc,           \* where each process is
  loc,          \* each process's locals
  mark          \* bookkeeping: consecutive balance sweeps, mod_actions' first size

vars == <<now, badges, invs, members, users, config, rep, history, actions, unresolved, hidden,
          xfers, tmoPending, events, pc, loc, mark>>

dbvars == <<badges, invs, members, users, config, rep, history, actions, unresolved, hidden, xfers>>

\* the tables of the moderation queue, which rotation leaves alone
queuevars == <<actions, unresolved, hidden, xfers>>

\* ------------------------------------------------------------- helpers
Max(a, b) == IF a >= b THEN a ELSE b

\* Math.ceil(a / b) for a >= 0, b > 0
Ceil(a, b) == (a + b - 1) \div b

\* Math.floor(r * n) for r = k / RandDen
FloorRand(k, n) == (k * n) \div RandDen

BadgeIds == 1 .. Len(badges)

Live(b) == badges[b].status \in {"offered", "active"}

NoLocals == [scope |-> "none", todo |-> <<>>, needed |-> 0, cfg |-> DefaultConfig,
             eligible |-> {}, rows |-> {}, cur |-> 0, why |-> "none",
             user |-> "none", content |-> "none", act |-> "none", at |-> 0, date |-> 0,
             log |-> <<>>, idx |-> 0]

\* a users row: not in Soul mode, created a month ago, seen now
qualifiedUser == [mode |-> TRUE, created |-> 0 - ACTIVITY_DAYS * HoursPerDay, seen |-> 0]

\* the users table when the engine starts
InitUsers == [u \in Users |-> qualifiedUser]

\* u.mode = true AND (u.last_login > NOW() - INTERVAL '30 days' OR EXISTS (a
\* post of the last 30 days))
activeUsers == {u \in Users : users[u].mode /\ users[u].seen > now - ACTIVITY_DAYS * HoursPerDay}

\* EXTRACT(DAY FROM NOW() - u.created_at): account age in days
accountAgeDays(u) == (now - users[u].created) \div HoursPerDay

\* members of a scope: group_members join, or users.pillar_id
scopeMembers(s) == IF scopeType(s) = "group" THEN members ELSE pillarUsers

\* getActiveMemberCount
getActiveMemberCount(s) == Cardinality(scopeMembers(s) \cap activeUsers)

\* a count that leaves out the badges still on offer
activeOnlyBadgeCount(s) == Cardinality({b \in BadgeIds : badges[b].scope = s /\ badges[b].status = "active"})

\* getActiveBadgeCount: status IN ('active', 'offered')
getActiveBadgeCount(s) == Cardinality({b \in BadgeIds : badges[b].scope = s /\ Live(b)})

\* the row getOrCreateConfig returns
configOf(s) == IF s \in DOMAIN config THEN config[s] ELSE DefaultConfig

\* desiredBadges = Math.ceil(activeMemberCount / config.badge_ratio)
desiredBadges(s) == Ceil(getActiveMemberCount(s), configOf(s).badgeRatio)

\* the moderation_config table after getOrCreateConfig
getOrCreateConfig(s) == [t \in (DOMAIN config) \cup {s} |-> configOf(t)]

\* a WHERE clause without the test on the account's age
eligibleOfAnyAge(s, cfg) ==
  {u \in scopeMembers(s) :
     /\ u \in activeUsers
     /\ rep[u] >= cfg.minReputation
     /\ ~ \E b \in BadgeIds : badges[b].holder = u /\ Live(b)
     /\ ~ \E h \in 1 .. Len(history) :
            /\ history[h].user = u
            /\ history[h].scope = s
            /\ history[h].at > now - COOLDOWN_DAYS * HoursPerDay}

\* getEligibleUsers: the WHERE clause, on the committed rows
getEligibleUsers(s, cfg) ==
  {u \in scopeMembers(s) :
     /\ u \in activeUsers
     /\ rep[u] >= cfg.minReputation
     /\ accountAgeDays(u) >= cfg.minAccountAgeDays
     /\ ~ \E b \in BadgeIds : badges[b].holder = u /\ Live(b)
     /\ ~ \E h \in 1 .. Len(history) :
            /\ history[h].user = u
            /\ history[h].scope = s
            /\ history[h].at > now - COOLDOWN_DAYS * HoursPerDay}

\* a duty period drawn as Math.floor(Math.random() * (MAX + 1))
dutyDaysUpToMax(k) == FloorRand(k, MAX_DUTY_DAYS + 1)

\* dutyDays = Math.floor(Math.random() * (MAX - MIN + 1)) + MIN
dutyDays(k) == FloorRand(k, MAX_DUTY_DAYS - MIN_DUTY_DAYS + 1) + MIN_DUTY_DAYS

\* the rows assignNewBadge inserts
newBadge(s, u, d) ==
  [scope |-> s, holder |-> u, status |-> "offered", duty |-> d,
   start |-> -1, end |-> -1, actions |-> 0, minActions |-> MIN_ACTIONS_REQUIRED]

newInvitation(u) ==
  [user |-> u, response |-> "null", invited |-> now, expires |-> now + INVITATION_TIMEOUT_HOURS]

\* eventEmitter.emit(type, {badgeId: b, ...})
event(type, b) == [type |-> type, id |-> b]

emit(type, b) == events' = events \cup {event(type, b)}

\* ---------------------------------------------------------------- Init
Init ==
  /\ now = 0
  /\ badges = <<>>
  /\ invs = <<>>
  /\ members = members_g1
  /\ users = InitUsers
  /\ config = InitConfig
  /\ rep = [u \in Users |-> 0]
  /\ history = <<>>
  /\ actions = <<>>
  /\ unresolved = [c \in Contents |-> 2]
  /\ hidden = [c \in Contents |-> FALSE]
  /\ xfers = <<>>
  /\ tmoPending = {}
  /\ events = {}
  /\ pc = [p \in Procs |-> "idle"]
  /\ loc = [p \in Procs |-> NoLocals]
  /\ mark = [len |-> -1, runs |-> 0, dirty |-> FALSE, base |-> 0]

\* --------------------------------------------------- process bookkeeping
\* write process p's position and locals
Goto(p, res) ==
  /\ pc' = [pc EXCEPT ![p] = res.pc]
  /\ loc' = [loc EXCEPT ![p] = res.loc]

\* checkAllScopesBadgeBalance's loops: the next scope, or the end of the sweep;
\* a request handler is done when its checkAndAssignBadges returns
NextScope(p, l) ==
  IF p = "bal" /\ Len(l.todo) > 1
    THEN [pc |-> "count", loc |-> [NoLocals EXCEPT !.todo = Tail(l.todo), !.scope = l.todo[2]]]
    ELSE [pc |-> "idle", loc |-> NoLocals]

\* where assignNewBadge returns to: the timeout sweep's loop, or the loop
\* for (i < badgesNeeded) of checkAndAssignBadges
AfterAssign(p, l) ==
  IF p = "tmo"
    THEN [pc |-> "tmoLoop", loc |-> [l EXCEPT !.eligible = {}, !.scope = "none", !.cfg = DefaultConfig]]
    ELSE IF l.needed > 1
      THEN [pc |-> "select", loc |-> [l EXCEPT !.needed = @ - 1, !.eligible = {}]]
      ELSE NextScope(p, l)

\* a balance sweep that ran from start to end with no other step in between
\* is counted, with the number of badges it left behind
BalMark ==
  IF pc["bal"] # "idle" /\ pc'["bal"] = "idle"
    THEN IF mark.dirty
           THEN mark' = [mark EXCEPT !.len = -1, !.runs = 0, !.dirty = FALSE]
           ELSE mark' = [mark EXCEPT !.len = Len(badges'), !.runs = IF mark.runs < 2 THEN mark.runs + 1 ELSE 2,
                                     !.dirty = FALSE]
    ELSE mark' = mark

\* any step of another process ends the count
OtherMark == mark' = [mark EXCEPT !.len = -1, !.runs = 0, !.dirty = pc["bal"] # "idle"]

Marks(p) == IF p = "bal" THEN BalMark ELSE OtherMark

\* ------------------------------------------- Eligibility & Assignment Engine
\* checkAndAssignBadges up to its loop: config, counts, badgesNeeded
CheckCount(p) ==
  /\ pc[p] = "count"
  /\ LET s == loc[p].scope
         cfg == configOf(s)
         currentBadges == getActiveBadgeCount(s)
         badgesNeeded == Max(0, desiredBadges(s) - currentBadges)
     IN /\ config' = getOrCreateConfig(s)
        /\ IF badgesNeeded > 0
             THEN Goto(p, [pc |-> "select", loc |-> [loc[p] EXCEPT !.needed = badgesNeeded, !.cfg = cfg]])
             ELSE Goto(p, NextScope(p, loc[p]))
  /\ UNCHANGED <<now, users, badges, invs, members, rep, history, queuevars, tmoPending, events>>
  /\ Marks(p)

\* an assignNewBadge that forces a badge on a member of the scope when the
\* eligibility query returns no row
AssignSelectForced(p) ==
  /\ pc[p] = "select"
  /\ Len(badges) < MaxBadges
  /\ LET l == loc[p]
         eligibleUsers == getEligibleUsers(l.scope, l.cfg)
     IN IF eligibleUsers = {}
          THEN Goto(p, [pc |-> "insert", loc |-> [l EXCEPT !.eligible = scopeMembers(l.scope)]])
          ELSE Goto(p, [pc |-> "insert", loc |-> [l EXCEPT !.eligible = eligibleUsers]])
  /\ UNCHANGED <<now, users, badges, invs, members, config, rep, history, queuevars, tmoPending, events>>
  /\ Marks(p)

\* an assignNewBadge that, with no eligible user, calls itself again
AssignSelectRetries(p) ==
  /\ pc[p] = "select"
  /\ Len(badges) < MaxBadges
  /\ LET l == loc[p]
         eligibleUsers == getEligibleUsers(l.scope, l.cfg)
     IN IF eligibleUsers = {}
          THEN Goto(p, [pc |-> "select", loc |-> l])
          ELSE Goto(p, [pc |-> "insert", loc |-> [l EXCEPT !.eligible = eligibleUsers]])
  /\ UNCHANGED <<now, users, badges, invs, members, config, rep, history, queuevars, tmoPending, events>>
  /\ Marks(p)

\* assignNewBadge up to the answer of the eligibility query, which runs on
\* the pool, outside the transaction assignNewBadge has just begun; with no
\* eligible user it rolls back and returns
AssignSelect(p) ==
  /\ pc[p] = "select"
  /\ Len(badges) < MaxBadges
  /\ LET l == loc[p]
         eligibleUsers == getEligibleUsers(l.scope, l.cfg)
     IN IF eligibleUsers = {}
          THEN Goto(p, AfterAssign(p, l))
          ELSE Goto(p, [pc |-> "insert", loc |-> [l EXCEPT !.eligible = eligibleUsers]])
  /\ UNCHANGED <<now, users, badges, invs, members, config, rep, history, queuevars, tmoPending, events>>
  /\ Marks(p)

\* logger.info(`Badge offered to user ...`)
offerLog(b) == [badge |-> b, result |-> "offered"]

\* assignNewBadge from the random selection to the COMMIT: selectedUser is
\* any row of the answer (ORDER BY RANDOM(), random index), k the sample
\* that gives the duty period
AssignInsert(p, selectedUser, k) ==
  /\ pc[p] = "insert"
  /\ selectedUser \in loc[p].eligible
  /\ LET l == loc[p]
     IN /\ badges' = Append(badges, newBadge(l.scope, selectedUser, dutyDays(k)))
        /\ invs' = Append(invs, newInvitation(selectedUser))
        /\ emit("badge:offered", Len(badges) + 1)
        /\ Goto(p, AfterAssign(p, [l EXCEPT !.log = Append(@, offerLog(Len(badges) + 1))]))
  /\ UNCHANGED <<now, users, members, config, rep, history, queuevars, tmoPending>>
  /\ Marks(p)

\* the random draws of assignNewBadge
Assign(p) == \E u \in Users, k \in RandNum : AssignInsert(p, u, k)

\* the random draws with every sample of Math.random(): 0 <= r < 1
AssignAny(p) == \E u \in Users, k \in 0 .. RandDen - 1 : AssignInsert(p, u, k)

\* assignNewBadge throws: a statement of its transaction fails, or the
\* eligibility query on the pool does.  Its catch rolls its transaction back
\* and throws again.  checkAndAssignBadges logs and throws again; the catch in
\* checkAllScopesBadgeBalance's loop logs and the loop goes on with the next
\* scope, a request handler ends.  In the timeout sweep nothing catches
\* before the sweep's own catch: ROLLBACK of the sweep's transaction, throw
AssignThrow(p) ==
  /\ pc[p] \in {"select", "insert"}
  /\ IF p = "tmo"
       THEN /\ tmoPending' = {}
            /\ Goto(p, [pc |-> "idle", loc |-> NoLocals])
       ELSE /\ tmoPending' = tmoPending
            /\ Goto(p, NextScope(p, loc[p]))
  /\ UNCHANGED <<now, dbvars, events>>
  /\ Marks(p)

\* the hourly balance check starts: groups with members first, then pillars
BalStart ==
  /\ pc["bal"] = "idle"
  /\ LET groups == IF members # {} THEN <<"g1">> ELSE <<>>
         pillars == IF pillarUsers \cap activeUsers # {} THEN <<"p1">> ELSE <<>>
         todo == groups \o pillars
     IN /\ todo # <<>>
        /\ Goto("bal", [pc |-> "count", loc |-> [NoLocals EXCEPT !.todo = todo, !.scope = todo[1]]])
  /\ UNCHANGED <<now, dbvars, tmoPending, events>>
  /\ BalMark

\* group:member_joined: a user joins g1 and checkBadgeRequirements runs
Join(u) ==
  /\ pc["req"] = "idle"
  /\ u \notin members
  /\ members' = members \cup {u}
  /\ Goto("req", [pc |-> "count", loc |-> [NoLocals EXCEPT !.scope = "g1", !.why = "join"]])
  /\ UNCHANGED <<now, users, badges, invs, config, rep, history, queuevars, tmoPending, events>>
  /\ OtherMark

\* ------------------------------------------------ Invitation Lifecycle Manager
\* the invitation and badge rows an open acceptInvitation transaction has
\* selected FOR UPDATE
accLocked(b) == pc["acc"] = "ledger" /\ loc["acc"].cur = b

\* a row is locked while an open transaction has updated or selected it
\* FOR UPDATE: the timeout sweep's, or an accept's
Locked(b) == b \in tmoPending \/ accLocked(b)

\* a SELECT without the test bi.expires_at > NOW()
validIgnoringExpiry(u, b, t) ==
  /\ invs[b].user = u
  /\ invs[b].response = "null"
  /\ badges[b].status = "offered"

\* acceptInvitation's SELECT ... FOR UPDATE returns a row; t is NOW(), the
\* time at which the transaction began
validInvitationAt(u, b, t) ==
  /\ invs[b].user = u
  /\ invs[b].response = "null"
  /\ invs[b].expires > t
  /\ badges[b].status = "offered"

validInvitation(u, b) == validInvitationAt(u, b, now)

\* endDate.setDate(endDate.getDate() + duty_days)
endDate(startDate, duty) == startDate + duty * HoursPerDay

\* the rows as acceptInvitation's UPDATEs leave them: start_date = NOW() is
\* the time t at which the transaction began, end_date is computed by the
\* handler from new Date(), the time d at which it got the SELECT's answer
acceptedInvs(b) == [invs EXCEPT ![b].response = "accepted"]

acceptedBadges(b, t, d) ==
  [badges EXCEPT ![b].status = "active", ![b].start = t, ![b].end = endDate(d, badges[b].duty)]

\* acceptInvitation when createBlockchainRecord answers at once: the whole
\* transaction at one instant; ok is whether createBlockchainRecord succeeds
\* (its failure rolls the transaction back)
acceptInvitation(u, b, ok) ==
  /\ b \in BadgeIds
  /\ ~ Locked(b)
  /\ validInvitation(u, b)
  /\ IF ok
       THEN /\ invs' = acceptedInvs(b)
            /\ badges' = acceptedBadges(b, now, now)
            /\ emit("badge:accepted", b)
       ELSE UNCHANGED <<badges, invs, events>>
  /\ UNCHANGED <<now, users, members, config, rep, history, queuevars, tmoPending, pc, loc>>
  /\ OtherMark

\* acceptInvitation when the database and createBlockchainRecord take their
\* time.  BEGIN: NOW() is fixed for the whole transaction.  The requests
\* modelled are those of a user for a badge offered to them
AcceptBegin(u, b) ==
  /\ pc["acc"] = "idle"
  /\ b \in BadgeIds
  /\ invs[b].user = u
  /\ badges[b].status = "offered"
  /\ Goto("acc", [pc |-> "begun", loc |-> [NoLocals EXCEPT !.user = u, !.cur = b, !.at = now]])
  /\ UNCHANGED <<now, dbvars, tmoPending, events>>
  /\ OtherMark

\* POST /badges/:badgeId/accept from any user for any badge: BEGIN
AcceptRequest(u, b) ==
  /\ pc["acc"] = "idle"
  /\ b \in BadgeIds
  /\ Goto("acc", [pc |-> "begun", loc |-> [NoLocals EXCEPT !.user = u, !.cur = b, !.at = now]])
  /\ UNCHANGED <<now, dbvars, tmoPending, events>>
  /\ OtherMark

\* the SELECT ... FOR UPDATE answers (it waits for a lock on the rows): no
\* row throws and rolls back; otherwise the two UPDATEs, uncommitted, with
\* new Date() read in between; the handler then awaits createBlockchainRecord
\* with its transaction open
AcceptSelect ==
  /\ pc["acc"] = "begun"
  /\ LET l == loc["acc"]
     IN /\ ~ Locked(l.cur)
        /\ IF validInvitationAt(l.user, l.cur, l.at)
             THEN Goto("acc", [pc |-> "ledger", loc |-> [l EXCEPT !.date = now]])
             ELSE Goto("acc", [pc |-> "idle", loc |-> NoLocals])
  /\ UNCHANGED <<now, dbvars, tmoPending, events>>
  /\ OtherMark

\* createBlockchainRecord has answered: COMMIT, or ROLLBACK when it failed
AcceptCommit(ok) ==
  /\ pc["acc"] = "ledger"
  /\ LET b == loc["acc"].cur
     IN IF ok
          THEN /\ invs' = acceptedInvs(b)
               /\ badges' = acceptedBadges(b, loc["acc"].at, loc["acc"].date)
               /\ emit("badge:accepted", b)
          ELSE UNCHANGED <<badges, invs, events>>
  /\ Goto("acc", [pc |-> "idle", loc |-> NoLocals])
  /\ UNCHANGED <<now, users, members, config, rep, history, queuevars, tmoPending>>
  /\ OtherMark

\* declineInvitation's SELECT ... FOR UPDATE returns a row (no expiry test)
declinable(u, b) ==
  /\ invs[b].user = u
  /\ invs[b].response = "null"
  /\ badges[b].status = "offered"

\* declineInvitation up to its COMMIT; the reassignment that follows runs
\* in the same handler (checkAndAssignBadges for the badge's scope)
declineInvitation(u, b) ==
  /\ pc["req"] = "idle"
  /\ b \in BadgeIds
  /\ ~ Locked(b)
  /\ declinable(u, b)
  /\ invs' = [invs EXCEPT ![b].response = "declined"]
  /\ badges' = [badges EXCEPT ![b].status = "declined"]
  /\ emit("badge:declined", b)
  /\ Goto("req", [pc |-> "count",
                  loc |-> [NoLocals EXCEPT !.scope = badges[b].scope, !.why = "decline", !.user = u, !.cur = b]])
  /\ UNCHANGED <<now, users, members, config, rep, history, queuevars, tmoPending>>
  /\ OtherMark

\* a badge_history row
historyRow(b, outcome) ==
  [user |-> badges[b].holder, badge |-> b, scope |-> badges[b].scope,
   outcome |-> outcome, at |-> now]

\* passBadge up to its COMMIT, then the reassignment in the same handler.
\* Its mod_actions row ('badge', 'passed') is no decision on content and is
\* left out of actions
passBadge(u, b) ==
  /\ pc["req"] = "idle"
  /\ b \in BadgeIds
  /\ ~ Locked(b)
  /\ badges[b].holder = u
  /\ badges[b].status = "active"
  /\ badges' = [badges EXCEPT ![b].status = "abandoned", ![b].end = now]
  /\ history' = Append(history, historyRow(b, "abandoned"))
  /\ rep' = [rep EXCEPT ![u] = @ - PASS_PENALTY]
  /\ emit("badge:passed", b)
  /\ Goto("req", [pc |-> "count",
                  loc |-> [NoLocals EXCEPT !.scope = badges[b].scope, !.why = "pass", !.user = u, !.cur = b]])
  /\ UNCHANGED <<now, users, invs, members, config, queuevars, tmoPending>>
  /\ OtherMark

\* processInvitationTimeouts: BEGIN and the SELECT of the expired invitations
TmoSelect ==
  /\ pc["tmo"] = "idle"
  /\ LET expiredInvitations ==
           {i \in BadgeIds : /\ invs[i].response = "null"
                             /\ invs[i].expires < now
                             /\ badges[i].status = "offered"}
     IN Goto("tmo", [pc |-> "tmoLoop", loc |-> [NoLocals EXCEPT !.rows = expiredInvitations]])
  /\ UNCHANGED <<now, dbvars, tmoPending, events>>
  /\ OtherMark

\* one turn of the loop: the two UPDATEs by id (uncommitted; they wait for
\* a lock another transaction holds on the rows, and test nothing but the
\* id), the event, and getOrCreateConfig on the pool; assignNewBadge follows
TmoUpdate(i) ==
  /\ pc["tmo"] = "tmoLoop"
  /\ i \in loc["tmo"].rows
  /\ ~ accLocked(i)
  /\ tmoPending' = tmoPending \cup {i}
  /\ emit("badge:timeout", i)
  /\ config' = getOrCreateConfig(badges[i].scope)
  /\ Goto("tmo", [pc |-> "select",
                  loc |-> [loc["tmo"] EXCEPT !.rows = @ \ {i}, !.cur = i,
                                             !.scope = badges[i].scope,
                                             !.cfg = configOf(badges[i].scope)]])
  /\ UNCHANGED <<now, users, badges, invs, members, rep, history, queuevars>>
  /\ OtherMark

\* the rows as the sweep's UPDATEs leave them
timedOutInvs == [i \in DOMAIN invs |-> IF i \in tmoPending THEN [invs[i] EXCEPT !.response = "timeout"] ELSE invs[i]]

\* a sweep that marks the invitations and leaves the badges as they are
badgesNotDeclined == badges

timedOutBadges == [b \in DOMAIN badges |-> IF b \in tmoPending THEN [badges[b] EXCEPT !.status = "declined"] ELSE badges[b]]

\* the loop is over: COMMIT
TmoCommit ==
  /\ pc["tmo"] = "tmoLoop"
  /\ loc["tmo"].rows = {}
  /\ invs' = timedOutInvs
  /\ badges' = timedOutBadges
  /\ tmoPending' = {}
  /\ Goto("tmo", [pc |-> "idle", loc |-> NoLocals])
  /\ UNCHANGED <<now, users, members, config, rep, history, queuevars, events>>
  /\ OtherMark

\* ---------------------------------------------------------------- the clock
\* the instants at which some row's time test changes its answer
InvitationDeadlines == {invs[i].expires + 1 : i \in {j \in BadgeIds : invs[j].response = "null"}}

DutyDeadlines == {badges[b].end : b \in {c \in BadgeIds : badges[c].status = "active"}}

\* time passes until a later instant at which D has a deadline
Tick(D) ==
  /\ \E d \in D : d > now /\ d <= MaxNow /\ now' = d
  /\ UNCHANGED <<dbvars, tmoPending, pc, loc, events>>
  /\ OtherMark

\* ------------------------------------------- Moderation Queue & Decisions
\* submitModerationDecision's badge check.  It runs on the pool, not on the
\* client that holds the transaction: its FOR UPDATE lock is gone when the
\* statement ends
SubmitCheck(u, b, c, a) ==
  /\ pc["dec"] = "idle"
  /\ Len(actions) < mark.base + MaxActions
  /\ b \in BadgeIds
  /\ ~ Locked(b)
  /\ badges[b].holder = u
  /\ badges[b].status = "active"
  /\ Goto("dec", [pc |-> "decide",
                  loc |-> [NoLocals EXCEPT !.user = u, !.cur = b, !.content = c, !.act = a,
                                           !.rows = {[id |-> b, actions |-> badges[b].actions]}]])
  /\ UNCHANGED <<now, dbvars, tmoPending, events>>
  /\ OtherMark

\* `moderation:content_${decision.action}ed`
decisionEvent(a) == IF a = "keep" THEN "moderation:content_keeped" ELSE "moderation:content_removeed"

\* a mod_actions row
actionRow(b, c, a, flagCount) == [badge |-> b, content |-> c, action |-> a, flags |-> flagCount]

\* a decision whose INSERT INTO mod_actions runs outside the transaction: the
\* row stays when createBlockchainRecord fails
SubmitInsertOutside(ok) ==
  /\ pc["dec"] = "decide"
  /\ LET l == loc["dec"]
         b == l.cur
         c == l.content
     IN /\ ~ Locked(b)
        /\ actions' = Append(actions, actionRow(b, c, l.act, unresolved[c]))
        /\ IF ok
             THEN /\ hidden' = IF l.act = "remove" THEN [hidden EXCEPT ![c] = TRUE] ELSE hidden
                  /\ rep' = IF l.act = "remove" THEN [rep EXCEPT ![authorOf(c)] = @ - REMOVE_PENALTY] ELSE rep
                  /\ unresolved' = [unresolved EXCEPT ![c] = 0]
                  /\ badges' = [badges EXCEPT ![b].actions = @ + 1]
                  /\ emit(decisionEvent(l.act), b)
             ELSE UNCHANGED <<hidden, rep, unresolved, badges, events>>
  /\ Goto("dec", [pc |-> "idle", loc |-> NoLocals])
  /\ UNCHANGED <<now, users, invs, members, config, history, xfers, tmoPending>>
  /\ OtherMark

\* a decision that writes actions_taken as badgeData.actions_taken + 1, from
\* the row its badge check read
SubmitFromReadCount(ok) ==
  /\ pc["dec"] = "decide"
  /\ LET l == loc["dec"]
         b == l.cur
         c == l.content
         badgeData == CHOOSE row \in l.rows : TRUE
     IN /\ ~ Locked(b)
        /\ IF ok
             THEN /\ actions' = Append(actions, actionRow(b, c, l.act, unresolved[c]))
                  /\ hidden' = IF l.act = "remove" THEN [hidden EXCEPT ![c] = TRUE] ELSE hidden
                  /\ rep' = IF l.act = "remove" THEN [rep EXCEPT ![authorOf(c)] = @ - REMOVE_PENALTY] ELSE rep
                  /\ unresolved' = [unresolved EXCEPT ![c] = 0]
                  /\ badges' = [badges EXCEPT ![b].actions = badgeData.actions + 1]
                  /\ emit(decisionEvent(l.act), b)
             ELSE UNCHANGED <<actions, hidden, rep, unresolved, badges, events>>
  /\ Goto("dec", [pc |-> "idle", loc |-> NoLocals])
  /\ UNCHANGED <<now, users, invs, members, config, history, xfers, tmoPending>>
  /\ OtherMark

\* the transaction of submitModerationDecision, from the flag count to the
\* COMMIT; ok is whether createBlockchainRecord succeeds (its failure rolls
\* the transaction back)
SubmitCommit(ok) ==
  /\ pc["dec"] = "decide"
  /\ LET l == loc["dec"]
         b == l.cur
         c == l.content
     IN /\ ~ Locked(b)
        /\ IF ok
             THEN /\ actions' = Append(actions, actionRow(b, c, l.act, unresolved[c]))
                  /\ hidden' = IF l.act = "remove" THEN [hidden EXCEPT ![c] = TRUE] ELSE hidden
                  /\ rep' = IF l.act = "remove" THEN [rep EXCEPT ![authorOf(c)] = @ - REMOVE_PENALTY] ELSE rep
                  /\ unresolved' = [unresolved EXCEPT ![c] = 0]
                  /\ badges' = [badges EXCEPT ![b].actions = @ + 1]
                  /\ emit(decisionEvent(l.act), b)
             ELSE UNCHANGED <<actions, hidden, rep, unresolved, badges, events>>
  /\ Goto("dec", [pc |-> "idle", loc |-> NoLocals])
  /\ UNCHANGED <<now, users, invs, members, config, history, xfers, tmoPending>>
  /\ OtherMark

\* the bodies POST /batch-review takes: 1 .. MaxBatch decisions
Decisions == [content : Contents, action : {"keep", "remove"}]

Batches == UNION {[1 .. n -> Decisions] : n \in 1 .. MaxBatch}

\* results.push({contentId, success})
batchResult(d, success) == [content |-> d.content, success |-> success]

\* POST /batch-review: the handler takes the body and enters its loop
BatchStart(u, b, decisions) ==
  /\ pc["bat"] = "idle"
  /\ Len(actions) + Len(decisions) <= mark.base + MaxActions
  /\ b \in BadgeIds
  /\ Goto("bat", [pc |-> "batLoop",
                  loc |-> [NoLocals EXCEPT !.user = u, !.cur = b, !.todo = decisions, !.idx = 1]])
  /\ UNCHANGED <<now, dbvars, tmoPending, events>>
  /\ OtherMark

\* the loop's turn for a decision, up to submitModerationDecision's badge
\* check: no row throws, and the loop's catch pushes the failure
BatchCheck ==
  /\ pc["bat"] = "batLoop"
  /\ LET l == loc["bat"]
     IN /\ l.idx <= Len(l.todo)
        /\ ~ Locked(l.cur)
        /\ IF badges[l.cur].holder = l.user /\ badges[l.cur].status = "active"
             THEN Goto("bat", [pc |-> "batDecide", loc |-> l])
             ELSE Goto("bat", [pc |-> "batLoop",
                               loc |-> [l EXCEPT !.idx = @ + 1,
                                                 !.log = Append(@, batchResult(l.todo[l.idx], FALSE))]])
  /\ UNCHANGED <<now, dbvars, tmoPending, events>>
  /\ OtherMark

\* a batch in which a decision that fails ends the loop: the decisions
\* after it get no turn
BatchStopsAtFailure(ok) ==
  /\ pc["bat"] = "batDecide"
  /\ LET l == loc["bat"]
         b == l.cur
         d == l.todo[l.idx]
         c == d.content
     IN /\ ~ Locked(b)
        /\ IF ok
             THEN /\ actions' = Append(actions, actionRow(b, c, d.action, unresolved[c]))
                  /\ hidden' = IF d.action = "remove" THEN [hidden EXCEPT ![c] = TRUE] ELSE hidden
                  /\ rep' = IF d.action = "remove" THEN [rep EXCEPT ![authorOf(c)] = @ - REMOVE_PENALTY] ELSE rep
                  /\ unresolved' = [unresolved EXCEPT ![c] = 0]
                  /\ badges' = [badges EXCEPT ![b].actions = @ + 1]
                  /\ emit(decisionEvent(d.action), b)
             ELSE UNCHANGED <<actions, hidden, rep, unresolved, badges, events>>
        /\ Goto("bat", [pc |-> "batLoop",
                        loc |-> [l EXCEPT !.idx = IF ok THEN @ + 1 ELSE Len(l.todo) + 1,
                                          !.log = Append(@, batchResult(d, ok))]])
  /\ UNCHANGED <<now, users, invs, members, config, history, xfers, tmoPending>>
  /\ OtherMark

\* the rest of the turn: submitModerationDecision's transaction, from the
\* flag count to the COMMIT (ok is whether createBlockchainRecord succeeds;
\* its failure rolls the transaction back), and the push of the result
BatchCommit(ok) ==
  /\ pc["bat"] = "batDecide"
  /\ LET l == loc["bat"]
         b == l.cur
         d == l.todo[l.idx]
         c == d.content
     IN /\ ~ Locked(b)
        /\ IF ok
             THEN /\ actions' = Append(actions, actionRow(b, c, d.action, unresolved[c]))
                  /\ hidden' = IF d.action = "remove" THEN [hidden EXCEPT ![c] = TRUE] ELSE hidden
                  /\ rep' = IF d.action = "remove" THEN [rep EXCEPT ![authorOf(c)] = @ - REMOVE_PENALTY] ELSE rep
                  /\ unresolved' = [unresolved EXCEPT ![c] = 0]
                  /\ badges' = [badges EXCEPT ![b].actions = @ + 1]
                  /\ emit(decisionEvent(d.action), b)
             ELSE UNCHANGED <<actions, hidden, rep, unresolved, badges, events>>
        /\ Goto("bat", [pc |-> "batLoop",
                        loc |-> [l EXCEPT !.idx = @ + 1, !.log = Append(@, batchResult(d, ok))]])
  /\ UNCHANGED <<now, users, invs, members, config, history, xfers, tmoPending>>
  /\ OtherMark

\* the loop is over: res.json with the results
BatchRespond ==
  /\ pc["bat"] = "batLoop"
  /\ loc["bat"].idx > Len(loc["bat"].todo)
  /\ Goto("bat", [pc |-> "idle", loc |-> NoLocals])
  /\ UNCHANGED <<now, dbvars, tmoPending, events>>
  /\ OtherMark

\* the content with flags when the queue is read: c1, c2 and c4 are posts of
\* g1, c3 is a post of g2
QueueContents == {"c1", "c2", "c3", "c4"}

\* content_flags.created_at of the unresolved flags of a content, oldest
\* first, in hours before the start
flagTimes(c) ==
  CASE c = "c1" -> <<-9, -2>>
    [] c = "c2" -> <<-6, -5>>
    [] c = "c3" -> <<-4>>
    [] c = "c4" -> <<-20>>

\* MAX(cf.created_at) as last_flagged
lastFlagged(c) == flagTimes(c)[Len(flagTimes(c))]

\* a WHERE clause that leaves out what another badge has decided on
flaggedItemsUnreviewed(s, b) ==
  {c \in DOMAIN unresolved :
     /\ unresolved[c] > 0
     /\ inQueueScope(c, s)
     /\ ~ \E i \in 1 .. Len(actions) : actions[i].content = c /\ actions[i].badge # b}

\* flagged_items: the content with unresolved flags in the badge's scope;
\* previous_actions (the rows of other badges) is joined for display only
flaggedItems(s, b) == {c \in DOMAIN unresolved : unresolved[c] > 0 /\ inQueueScope(c, s)}

\* ORDER BY fi.flag_count DESC, fi.last_flagged ASC
queueOrder(c, d) ==
  \/ unresolved[c] > unresolved[d]
  \/ unresolved[c] = unresolved[d] /\ lastFlagged(c) <= lastFlagged(d)

\* the answers the queue query can give: the items, each once, in an order
\* that ORDER BY allows
queueAnswers(s, b) ==
  LET items == flaggedItems(s, b)
      n == Cardinality(items)
  IN {q \in [1 .. n -> items] :
        /\ \A i, j \in 1 .. n : i # j => q[i] # q[j]
        /\ \A i \in 1 .. n - 1 : queueOrder(q[i], q[i + 1])}

\* getModerationQueue's badge check, on the pool: no row throws
QueueCheck(u, b) ==
  /\ pc["que"] = "idle"
  /\ b \in BadgeIds
  /\ ~ Locked(b)
  /\ IF badges[b].holder = u /\ badges[b].status = "active"
       THEN Goto("que", [pc |-> "queue",
                         loc |-> [NoLocals EXCEPT !.user = u, !.cur = b, !.scope = badges[b].scope]])
       ELSE Goto("que", [pc |-> "done", loc |-> [NoLocals EXCEPT !.user = u, !.cur = b, !.why = "error"]])
  /\ UNCHANGED <<now, dbvars, tmoPending, events>>
  /\ OtherMark

\* the queue query answers, in one of the orders it can
QueueSelect(q) ==
  /\ pc["que"] = "queue"
  /\ q \in queueAnswers(loc["que"].scope, loc["que"].cur)
  /\ Goto("que", [pc |-> "done", loc |-> [loc["que"] EXCEPT !.todo = q, !.why = "ok"]])
  /\ UNCHANGED <<now, dbvars, tmoPending, events>>
  /\ OtherMark

\* the caller has its answer, the rows or the error
QueueReturn ==
  /\ pc["que"] = "done"
  /\ Goto("que", [pc |-> "idle", loc |-> NoLocals])
  /\ UNCHANGED <<now, dbvars, tmoPending, events>>
  /\ OtherMark

\* ------------------------------------------------------- Settlement Engine
\* processExpiredBadges' SELECT: the rows of the active badges whose end_date
\* has come, as they are now.  No transaction is open, so the FOR UPDATE
\* locks end with the statement.  The lock clause has no OF list, so it also
\* covers moderation_config, the nullable side of the LEFT JOIN: whether the
\* server takes the statement is the server's choice (taken); when it does
\* not, the sweep throws here, before any write
ExpSelect(e, taken) ==
  /\ pc[e] = "idle"
  /\ LET due == {b \in BadgeIds : badges[b].status = "active" /\ badges[b].end <= now}
     IN /\ \A b \in due : ~ Locked(b)
        /\ IF taken
             THEN Goto(e, [pc |-> "expLoop",
                           loc |-> [NoLocals EXCEPT !.rows = {[id |-> b, actions |-> badges[b].actions] : b \in due}]])
             ELSE Goto(e, [pc |-> "idle", loc |-> NoLocals])
  /\ UNCHANGED <<now, dbvars, tmoPending, events>>
  /\ OtherMark

\* badge.reward_reputation || 5
rewardReputation(cfg) == IF cfg.rewardReputation # 0 THEN cfg.rewardReputation ELSE COMPLETION_REPUTATION

\* the penalty with the wrong sign
wrongSignPenalty(cfg) == 0 - ABANDONMENT_PENALTY

\* badge.penalty_reputation || -3
penaltyReputation(cfg) == IF cfg.penaltyReputation # 0 THEN cfg.penaltyReputation ELSE ABANDONMENT_PENALTY

\* badge.reward_pco || 0.5, in tenths
rewardPco(cfg) == IF cfg.rewardPco # 0 THEN cfg.rewardPco ELSE 5

\* a call of transferToken for the reward of badge b
tokenTransfer(b, xferOk) == [badge |-> b, ok |-> xferOk]

\* a completion whose transferToken is not in a try/catch: its failure rolls
\* the badge's transaction back
completionUndoneByTransfer(e, row, xferOk) ==
  LET b == row.id
      cfg == configOf(badges[b].scope)
  IN /\ xfers' = Append(xfers, tokenTransfer(b, xferOk))
     /\ IF xferOk
          THEN /\ badges' = [badges EXCEPT ![b].status = "expired"]
               /\ history' = Append(history, historyRow(b, "completed"))
               /\ rep' = [rep EXCEPT ![badges[b].holder] = @ + rewardReputation(cfg)]
               /\ emit("badge:completed", b)
          ELSE UNCHANGED <<badges, history, rep, events>>

\* processSuccessfulCompletion in its transaction; xferOk is whether
\* transferToken goes through (its failure, and the failure of the ledger
\* record that follows it, are caught and logged).  Every user has a
\* wallet_pub_key: accounts are created by wallet login
processSuccessfulCompletion(e, row, xferOk) ==
  LET b == row.id
      cfg == configOf(badges[b].scope)
  IN /\ badges' = [badges EXCEPT ![b].status = "expired"]
     /\ history' = Append(history, historyRow(b, "completed"))
     /\ rep' = [rep EXCEPT ![badges[b].holder] = @ + rewardReputation(cfg)]
     /\ xfers' = IF rewardPco(cfg) > 0 THEN Append(xfers, tokenTransfer(b, xferOk)) ELSE xfers
     /\ emit("badge:completed", b)

\* processAbandonedBadge in its transaction; ledgerOk is whether
\* createBlockchainRecord succeeds (its failure rolls this badge back)
processAbandonedBadge(e, row, ledgerOk) ==
  LET b == row.id
      cfg == configOf(badges[b].scope)
  IN /\ xfers' = xfers
     /\ IF ledgerOk
          THEN /\ badges' = [badges EXCEPT ![b].status = "expired"]
               /\ history' = Append(history, historyRow(b, "abandoned"))
               /\ rep' = [rep EXCEPT ![badges[b].holder] = @ + penaltyReputation(cfg)]
               /\ emit("badge:abandoned", b)
          ELSE UNCHANGED <<badges, history, rep, events>>

\* the turn for a row throws: processAbandonedBadge does when
\* createBlockchainRecord fails, processSuccessfulCompletion catches what
\* its calls throw
turnFails(row, ok) == row.actions < badges[row.id].minActions /\ ~ ok

\* what the turn for a row writes to the log: logger.error in the loop's
\* catch, logger.info at the end of the two settlement paths
turnLog(row, ok) == [badge |-> row.id, result |-> IF turnFails(row, ok) THEN "error" ELSE "settled"]

\* a loop whose catch leaves the loop: the rows that are left get no turn
ExpSettleLeavesLoop(e, row, ok) ==
  /\ pc[e] = "expLoop"
  /\ row \in loc[e].rows
  /\ ~ Locked(row.id)
  /\ IF row.actions >= badges[row.id].minActions
       THEN processSuccessfulCompletion(e, row, ok)
       ELSE processAbandonedBadge(e, row, ok)
  /\ Goto(e, [pc |-> "expLoop",
              loc |-> [loc[e] EXCEPT !.rows = IF turnFails(row, ok) THEN {} ELSE @ \ {row},
                                     !.log = Append(@, turnLog(row, ok))]])
  /\ UNCHANGED <<now, users, invs, members, config, actions, unresolved, hidden, tmoPending>>
  /\ OtherMark

\* one turn of processExpiredBadges' loop: BEGIN ... COMMIT for one selected
\* row, or ROLLBACK in the catch, which logs the error and goes on with the
\* next row; the completion test reads the row as it was selected
ExpSettle(e, row, ok) ==
  /\ pc[e] = "expLoop"
  /\ row \in loc[e].rows
  /\ ~ Locked(row.id)
  /\ IF row.actions >= badges[row.id].minActions
       THEN processSuccessfulCompletion(e, row, ok)
       ELSE processAbandonedBadge(e, row, ok)
  /\ Goto(e, [pc |-> "expLoop",
              loc |-> [loc[e] EXCEPT !.rows = @ \ {row}, !.log = Append(@, turnLog(row, ok))]])
  /\ UNCHANGED <<now, users, invs, members, config, actions, unresolved, hidden, tmoPending>>
  /\ OtherMark

\* the loop is over
ExpDone(e) ==
  /\ pc[e] = "expLoop"
  /\ loc[e].rows = {}
  /\ Goto(e, [pc |-> "idle", loc |-> NoLocals])
  /\ UNCHANGED <<now, dbvars, tmoPending, events>>
  /\ OtherMark

\* ------------------------------------------------------------ specification
\* the steps of the balance sweep
BalStep == BalStart \/ CheckCount("bal") \/ AssignSelect("bal") \/ Assign("bal")

\* the steps of the timeout sweep
TmoStep ==
  \/ TmoSelect
  \/ \E i \in BadgeIds : TmoUpdate(i)
  \/ AssignSelect("tmo") \/ Assign("tmo")
  \/ TmoCommit

\* the reassignment a request handler runs after its commit
ReqStep == CheckCount("req") \/ AssignSelect("req") \/ Assign("req")

\* the steps of a run of the expiry sweep
ExpStep(e) ==
  \/ \E taken \in BOOLEAN : ExpSelect(e, taken)
  \/ \E row \in loc[e].rows, ok \in BOOLEAN : ExpSettle(e, row, ok)
  \/ ExpDone(e)

\* the steps of a decision
DecStep ==
  \/ \E u \in Users, b \in BadgeIds, c \in Contents, a \in {"keep", "remove"} : SubmitCheck(u, b, c, a)
  \/ \E ok \in BOOLEAN : SubmitCommit(ok)

\* the steps of a batch review
BatStep ==
  \/ \E u \in Users, b \in BadgeIds, decisions \in Batches : BatchStart(u, b, decisions)
  \/ BatchCheck
  \/ \E ok \in BOOLEAN : BatchCommit(ok)
  \/ BatchRespond

Accept == \E u \in Users, b \in BadgeIds, ok \in BOOLEAN : acceptInvitation(u, b, ok)

\* the steps of an accept that waits for createBlockchainRecord
AccStep ==
  \/ \E u \in Users, b \in BadgeIds : AcceptBegin(u, b)
  \/ AcceptSelect
  \/ \E ok \in BOOLEAN : AcceptCommit(ok)

Decline == \E u \in Users, b \in BadgeIds : declineInvitation(u, b)

Pass == \E u \in Users, b \in BadgeIds : passBadge(u, b)

Joined == \E u \in Users : Join(u)

\* Assignment: the balance sweep next to the request handlers (accept,
\* decline, pass, member-joined) and their reassignments.  The clock stands.
Next == BalStep \/ ReqStep \/ Joined \/ Accept \/ Decline \/ Pass

Spec == Init /\ [][Next]_vars

\* Invitations: the balance sweep offers badges, time passes, users accept
\* (createBlockchainRecord taking its time), the timeout sweep runs.
NextSweep ==
  \/ BalStep
  \/ TmoStep
  \/ AccStep
  \/ Tick(InvitationDeadlines)

SpecSweep == Init /\ [][NextSweep]_vars

\* Duty: badges are offered and accepted, holders pass, duty periods end and
\* the expiry sweep settles them.
NextDuty ==
  \/ BalStep
  \/ Accept
  \/ Pass
  \/ ReqStep
  \/ ExpStep("exp1")
  \/ Tick(DutyDeadlines)

SpecDuty == Init /\ [][NextDuty]_vars

\* Two runs of the expiry sweep that overlap.
NextOverlap ==
  \/ BalStep
  \/ Accept
  \/ ExpStep("exp1")
  \/ ExpStep("exp2")
  \/ Tick(DutyDeadlines)

SpecOverlap == Init /\ [][NextOverlap]_vars

\* Queue: holders of active badges decide on flagged content while the expiry
\* sweep runs.
NextQueue ==
  \/ BalStep
  \/ Accept
  \/ DecStep
  \/ ExpStep("exp1")
  \/ Tick(DutyDeadlines)

SpecQueue == Init /\ [][NextQueue]_vars

\* Decisions next to passes: holders decide on flagged content and pass
\* their badges.  The clock stands.
NextPass ==
  \/ BalStep
  \/ Accept
  \/ DecStep
  \/ Pass
  \/ ReqStep

SpecPass == Init /\ [][NextPass]_vars

\* Faults: the balance check and the timeout sweep while assignNewBadge can
\* throw.
NextFault ==
  \/ BalStep
  \/ AssignThrow("bal")
  \/ TmoStep
  \/ AssignThrow("tmo")
  \/ Tick(InvitationDeadlines)

SpecFault == Init /\ [][NextFault]_vars

\* Balance.  The engine starts with no badge; g1 has two or three members.
freshState(m) ==
  /\ now = 0
  /\ badges = <<>>
  /\ invs = <<>>
  /\ members = m
  /\ users = InitUsers
  /\ config = InitConfig
  /\ rep = [u \in Users |-> 0]
  /\ history = <<>>
  /\ actions = <<>>
  /\ unresolved = [c \in Contents |-> 2]
  /\ hidden = [c \in Contents |-> FALSE]
  /\ xfers = <<>>
  /\ tmoPending = {}
  /\ events = {}
  /\ pc = [p \in Procs |-> "idle"]
  /\ loc = [p \in Procs |-> NoLocals]
  /\ mark = [len |-> -1, runs |-> 0, dirty |-> FALSE, base |-> 0]

InitBalance == \E m \in {members_g1, Users} : freshState(m)

\* the balance check runs, users accept
NextBalance ==
  \/ BalStep
  \/ Accept

SpecBalance == InitBalance /\ [][NextBalance]_vars

\* Timeouts.  The state the first balance check leaves behind: badge 1 of g1
\* is on offer to h1, badge 2 of p1 to h2.
offerState(h1, h2) ==
  /\ now = 0
  /\ badges = << newBadge("g1", h1, dutyDays(0)), newBadge("p1", h2, dutyDays(0)) >>
  /\ invs = << newInvitation(h1), newInvitation(h2) >>
  /\ members = members_g1
  /\ users = InitUsers
  /\ config = InitConfig
  /\ rep = [u \in Users |-> 0]
  /\ history = <<>>
  /\ actions = <<>>
  /\ unresolved = [c \in Contents |-> 2]
  /\ hidden = [c \in Contents |-> FALSE]
  /\ xfers = <<>>
  /\ tmoPending = {}
  /\ events = {event("badge:offered", 1), event("badge:offered", 2)}
  /\ pc = [p \in Procs |-> "idle"]
  /\ loc = [p \in Procs |-> NoLocals]
  /\ mark = [len |-> 2, runs |-> 1, dirty |-> FALSE, base |-> 0]

InitOffer == \E h1 \in members_g1 : \E h2 \in pillarUsers \ {h1} : offerState(h1, h2)

\* invitations run out, users decline, the timeout sweep runs
NextTimeout ==
  \/ TmoStep
  \/ Decline
  \/ ReqStep
  \/ Tick(InvitationDeadlines)

SpecTimeout == InitOffer /\ [][NextTimeout]_vars

\* the timeout sweep is a cron job: it is started again and again, and a run
\* that has started goes on to its end ('30 * * * *')
SpecTimeoutFair ==
  /\ InitOffer
  /\ [][NextTimeout]_vars
  /\ WF_vars(TmoSelect)
  /\ WF_vars(\E i \in BadgeIds : TmoUpdate(i))
  /\ WF_vars(AssignSelect("tmo"))
  /\ WF_vars(Assign("tmo"))
  /\ WF_vars(TmoCommit)

\* Settlement.  The state a balance check, u1's accept and k decisions of
\* u1 on c1 leave behind: badge 1 of g1 is active with actions_taken = k,
\* badge 2 of p1 is on offer to u2.
dutyState(k) ==
  /\ now = 0
  /\ badges = << [newBadge("g1", "u1", dutyDays(0)) EXCEPT
                    !.status = "active", !.start = 0, !.end = endDate(0, dutyDays(0)), !.actions = k],
                 newBadge("p1", "u2", dutyDays(0)) >>
  /\ invs = << [newInvitation("u1") EXCEPT !.response = "accepted"], newInvitation("u2") >>
  /\ members = members_g1
  /\ users = InitUsers
  /\ config = InitConfig
  /\ rep = [u \in Users |-> 0]
  /\ history = <<>>
  /\ actions = [i \in 1 .. k |-> actionRow(1, "c1", "keep", IF i = 1 THEN 2 ELSE 0)]
  /\ unresolved = [c \in Contents |-> IF k = 0 THEN 2 ELSE 0]
  /\ hidden = [c \in Contents |-> FALSE]
  /\ xfers = <<>>
  /\ tmoPending = {}
  /\ events = {event("badge:offered", 1), event("badge:offered", 2), event("badge:accepted", 1)}
                \cup (IF k > 0 THEN {event("moderation:content_keeped", 1)} ELSE {})
  /\ pc = [p \in Procs |-> "idle"]
  /\ loc = [p \in Procs |-> NoLocals]
  /\ mark = [len |-> -1, runs |-> 0, dirty |-> FALSE, base |-> k]

InitSettle == \E k \in 0 .. MIN_ACTIONS_REQUIRED : dutyState(k)

\* the holder goes on deciding, the duty period ends, the expiry sweep runs
NextSettle ==
  \/ DecStep
  \/ ExpStep("exp1")
  \/ Tick(DutyDeadlines)

SpecSettle == InitSettle /\ [][NextSettle]_vars

\* the expiry sweep is a cron job: it is started again and again, and a run
\* that has started goes on to its end ('15 * * * *')
SpecSettleFair ==
  /\ InitSettle
  /\ [][NextSettle]_vars
  /\ WF_vars(ExpSelect("exp1", TRUE))
  /\ WF_vars(\E row \in loc["exp1"].rows, ok \in BOOLEAN : ExpSettle("exp1", row, ok))
  /\ WF_vars(ExpDone("exp1"))

\* Batches: holders and others send batch reviews while the duty period ends
\* and the expiry sweep runs.
NextBatch ==
  \/ BatStep
  \/ ExpStep("exp1")
  \/ Tick(DutyDeadlines)

SpecBatch == InitSettle /\ [][NextBatch]_vars

\* Answers.  Badges are on offer; any user asks to accept any badge, invited
\* users decline, invitations run out.
NextAnswer ==
  \/ \E u \in Users, b \in BadgeIds : AcceptRequest(u, b)
  \/ AcceptSelect
  \/ \E ok \in BOOLEAN : AcceptCommit(ok)
  \/ Decline
  \/ ReqStep
  \/ Tick(InvitationDeadlines)

SpecAnswer == InitOffer /\ [][NextAnswer]_vars

\* Penalties.  The operators have set g1's penalty_reputation, to the
\* default or to another amount; badge 1 of g1 is active, badge 2 of p1 is on
\* offer.
OperatorPenalties == {ABANDONMENT_PENALTY, ABANDONMENT_PENALTY - 2}

penaltyState(pen) ==
  /\ now = 0
  /\ badges = << [newBadge("g1", "u1", dutyDays(0)) EXCEPT
                    !.status = "active", !.start = 0, !.end = endDate(0, dutyDays(0))],
                 newBadge("p1", "u2", dutyDays(0)) >>
  /\ invs = << [newInvitation("u1") EXCEPT !.response = "accepted"], newInvitation("u2") >>
  /\ members = members_g1
  /\ users = InitUsers
  /\ config = [InitConfig EXCEPT !["g1"].penaltyReputation = pen]
  /\ rep = [u \in Users |-> 0]
  /\ history = <<>>
  /\ actions = <<>>
  /\ unresolved = [c \in Contents |-> 2]
  /\ hidden = [c \in Contents |-> FALSE]
  /\ xfers = <<>>
  /\ tmoPending = {}
  /\ events = {event("badge:offered", 1), event("badge:offered", 2), event("badge:accepted", 1)}
  /\ pc = [p \in Procs |-> "idle"]
  /\ loc = [p \in Procs |-> NoLocals]
  /\ mark = [len |-> -1, runs |-> 0, dirty |-> FALSE, base |-> 0]

InitPenalty == \E pen \in OperatorPenalties : penaltyState(pen)

\* holders pass or sit out their duty, users accept, the expiry sweep runs
NextPenalty ==
  \/ Pass
  \/ ReqStep
  \/ Accept
  \/ ExpStep("exp1")
  \/ Tick(DutyDeadlines)

SpecPenalty == InitPenalty /\ [][NextPenalty]_vars

\* Offers.  The balance check draws duty periods of every length; users
\* accept, invitations run out and the timeout sweep runs.
NextOffer ==
  \/ BalStart \/ CheckCount("bal") \/ AssignSelect("bal") \/ AssignAny("bal")
  \/ Accept
  \/ TmoStep
  \/ Tick(InvitationDeadlines)

SpecOffer == Init /\ [][NextOffer]_vars

\* Candidates.  Every user is a member of g1; each is qualified, in Soul
\* mode, a week short of the minimum account age, or last seen a month ago.
\* The balance check offers badges, users accept and holders pass.
UserRows ==
  {qualifiedUser,
   [qualifiedUser EXCEPT !.mode = FALSE],
   [qualifiedUser EXCEPT !.created = 0 - (DefaultConfig.minAccountAgeDays - 1) * HoursPerDay],
   [qualifiedUser EXCEPT !.seen = 0 - ACTIVITY_DAYS * HoursPerDay]}

candidateState(rows) ==
  /\ now = 0
  /\ badges = <<>>
  /\ invs = <<>>
  /\ members = Users
  /\ users = rows
  /\ config = InitConfig
  /\ rep = [u \in Users |-> 0]
  /\ history = <<>>
  /\ actions = <<>>
  /\ unresolved = [c \in Contents |-> 2]
  /\ hidden = [c \in Contents |-> FALSE]
  /\ xfers = <<>>
  /\ tmoPending = {}
  /\ events = {}
  /\ pc = [p \in Procs |-> "idle"]
  /\ loc = [p \in Procs |-> NoLocals]
  /\ mark = [len |-> -1, runs |-> 0, dirty |-> FALSE, base |-> 0]

InitCandidates == \E rows \in [Users -> UserRows] : candidateState(rows)

NextCandidates ==
  \/ BalStep
  \/ Accept
  \/ Pass
  \/ ReqStep

SpecCandidates == InitCandidates /\ [][NextCandidates]_vars

\* Reviews: single decisions and batch reviews at the same time, while the
\* duty period ends and the expiry sweep runs.
NextReview ==
  \/ DecStep
  \/ BatStep
  \/ ExpStep("exp1")
  \/ Tick(DutyDeadlines)

SpecReview == InitSettle /\ [][NextReview]_vars

\* Amounts.  The operators have set g1's reward_reputation and
\* penalty_reputation: to the defaults, to other amounts, or to 0.  Badge 1 of
\* g1 is active with k decisions taken, badge 2 of p1 is on offer.
OperatorRewards == {COMPLETION_REPUTATION, COMPLETION_REPUTATION + 3, 0}

OperatorPenaltiesOrNone == OperatorPenalties \cup {0}

amountsState(k, reward, pen) ==
  /\ now = 0
  /\ badges = << [newBadge("g1", "u1", dutyDays(0)) EXCEPT
                    !.status = "active", !.start = 0, !.end = endDate(0, dutyDays(0)), !.actions = k],
                 newBadge("p1", "u2", dutyDays(0)) >>
  /\ invs = << [newInvitation("u1") EXCEPT !.response = "accepted"], newInvitation("u2") >>
  /\ members = members_g1
  /\ users = InitUsers
  /\ config = [InitConfig EXCEPT !["g1"].rewardReputation = reward, !["g1"].penaltyReputation = pen]
  /\ rep = [u \in Users |-> 0]
  /\ history = <<>>
  /\ actions = [i \in 1 .. k |-> actionRow(1, "c1", "keep", IF i = 1 THEN 2 ELSE 0)]
  /\ unresolved = [c \in Contents |-> IF k = 0 THEN 2 ELSE 0]
  /\ hidden = [c \in Contents |-> FALSE]
  /\ xfers = <<>>
  /\ tmoPending = {}
  /\ events = {event("badge:offered", 1), event("badge:offered", 2), event("badge:accepted", 1)}
                \cup (IF k > 0 THEN {event("moderation:content_keeped", 1)} ELSE {})
  /\ pc = [p \in Procs |-> "idle"]
  /\ loc = [p \in Procs |-> NoLocals]
  /\ mark = [len |-> -1, runs |-> 0, dirty |-> FALSE, base |-> k]

InitAmounts ==
  \E k \in 0 .. MIN_ACTIONS_REQUIRED, reward \in OperatorRewards, pen \in OperatorPenaltiesOrNone :
    amountsState(k, reward, pen)

SpecAmounts == InitAmounts /\ [][NextSettle]_vars

\* Cascades.  Badges are on offer; users accept, decline and pass,
\* invitations run out and the timeout sweep runs: every reassignment there
\* is.
NextCascade ==
  \/ Accept
  \/ Decline
  \/ Pass
  \/ ReqStep
  \/ TmoStep
  \/ Tick(InvitationDeadlines)

SpecCascade == InitOffer /\ [][NextCascade]_vars

\* a handler that has started goes on: each of its awaits returns when the
\* database has answered
SpecCascadeFair ==
  /\ InitOffer
  /\ [][NextCascade]_vars
  /\ WF_vars(CheckCount("req"))
  /\ WF_vars(AssignSelect("req"))
  /\ WF_vars(Assign("req"))
  /\ WF_vars(\E i \in BadgeIds : TmoUpdate(i))
  /\ WF_vars(AssignSelect("tmo"))
  /\ WF_vars(Assign("tmo"))
  /\ WF_vars(TmoCommit)

\* Pool.  The handlers share a pool of PoolSize connections.  A handler keeps
\* the client it got from pool.connect() until its finally block: decline and
\* pass through the reassignment they call, the timeout sweep through its
\* loop, assignNewBadge from its BEGIN to its COMMIT or ROLLBACK.  pool.query
\* takes a connection for one statement.
poolHeld(p) ==
  (IF p = "tmo" /\ pc[p] # "idle" THEN 1 ELSE 0)
  + (IF p = "req" /\ pc[p] # "idle" /\ loc[p].why \in {"decline", "pass"} THEN 1 ELSE 0)
  + (IF pc[p] \in {"select", "insert"} THEN 1 ELSE 0)

poolFree == PoolSize - (poolHeld("bal") + poolHeld("req") + poolHeld("tmo"))

\* pool.connect() and pool.query() return when a connection is free; the
\* pool is created without a timeout, so until then the caller waits
poolGrants == poolFree >= 1

\* the steps that ask the pool for a connection; the insert and the commit
\* of a handler run on the client it holds
NextPool ==
  \/ poolGrants /\ BalStart
  \/ poolGrants /\ CheckCount("bal")
  \/ poolGrants /\ AssignSelect("bal")
  \/ Assign("bal")
  \/ poolGrants /\ Accept
  \/ poolGrants /\ Decline
  \/ poolGrants /\ Pass
  \/ poolGrants /\ CheckCount("req")
  \/ poolGrants /\ AssignSelect("req")
  \/ Assign("req")
  \/ poolGrants /\ TmoSelect
  \/ poolGrants /\ (\E i \in BadgeIds : TmoUpdate(i))
  \/ poolGrants /\ AssignSelect("tmo")
  \/ Assign("tmo")
  \/ TmoCommit
  \/ Tick(InvitationDeadlines)

SpecPool == InitOffer /\ [][NextPool]_vars

\* a handler goes on as soon as the pool has given it what it waits for
SpecPoolFair ==
  /\ InitOffer
  /\ [][NextPool]_vars
  /\ WF_vars(poolGrants /\ CheckCount("bal"))
  /\ WF_vars(poolGrants /\ AssignSelect("bal"))
  /\ WF_vars(Assign("bal"))
  /\ WF_vars(poolGrants /\ CheckCount("req"))
  /\ WF_vars(poolGrants /\ AssignSelect("req"))
  /\ WF_vars(Assign("req"))
  /\ WF_vars(poolGrants /\ (\E i \in BadgeIds : TmoUpdate(i)))
  /\ WF_vars(poolGrants /\ AssignSelect("tmo"))
  /\ WF_vars(Assign("tmo"))
  /\ WF_vars(TmoCommit)

\* Queue reads.  Badge 1 of g1, held by u2, has been settled short of its
\* quota after one keep on c2; since then c2 has been flagged again.  Badge 2
\* of g1 is active with u1, badge 3 of p1 with u3.  Every content has its
\* flags unresolved.
settledAt == 0 - HoursPerDay

queueState ==
  /\ now = 0
  /\ badges = << [newBadge("g1", "u2", dutyDays(0)) EXCEPT
                    !.status = "expired", !.start = settledAt - dutyDays(0) * HoursPerDay,
                    !.end = settledAt, !.actions = 1],
                 [newBadge("g1", "u1", dutyDays(0)) EXCEPT
                    !.status = "active", !.start = 0, !.end = endDate(0, dutyDays(0))],
                 [newBadge("p1", "u3", dutyDays(0)) EXCEPT
                    !.status = "active", !.start = 0, !.end = endDate(0, dutyDays(0))] >>
  /\ invs = [i \in 1 .. 3 |->
               [user |-> <<"u2", "u1", "u3">>[i], response |-> "accepted",
                invited |-> IF i = 1 THEN settledAt - dutyDays(0) * HoursPerDay ELSE 0,
                expires |-> (IF i = 1 THEN settledAt - dutyDays(0) * HoursPerDay ELSE 0)
                              + INVITATION_TIMEOUT_HOURS]]
  /\ members = members_g1
  /\ users = InitUsers
  /\ config = InitConfig
  /\ rep = [u \in Users |-> IF u = "u2" THEN ABANDONMENT_PENALTY ELSE 0]
  /\ history = << [user |-> "u2", badge |-> 1, scope |-> "g1", outcome |-> "abandoned", at |-> settledAt] >>
  /\ actions = << actionRow(1, "c2", "keep", 1) >>
  /\ unresolved = [c \in QueueContents |-> Len(flagTimes(c))]
  /\ hidden = [c \in QueueContents |-> FALSE]
  /\ xfers = <<>>
  /\ tmoPending = {}
  /\ events = {event("badge:offered", b) : b \in 1 .. 3} \cup {event("badge:accepted", b) : b \in 1 .. 3}
                \cup {event("moderation:content_keeped", 1), event("badge:abandoned", 1)}
  /\ pc = [p \in Procs |-> "idle"]
  /\ loc = [p \in Procs |-> NoLocals]
  /\ mark = [len |-> -1, runs |-> 0, dirty |-> FALSE, base |-> 1]

\* the steps of a read of the moderation queue
QueStep ==
  \/ \E u \in Users, b \in BadgeIds : QueueCheck(u, b)
  \/ \E q \in queueAnswers(loc["que"].scope, loc["que"].cur) : QueueSelect(q)
  \/ QueueReturn

\* holders read their queue and decide on what is flagged, duty periods end
\* and the expiry sweep runs
NextQueueRead ==
  \/ QueStep
  \/ \E u \in Users, b \in BadgeIds, c \in QueueContents, a \in {"keep", "remove"} : SubmitCheck(u, b, c, a)
  \/ \E ok \in BOOLEAN : SubmitCommit(ok)
  \/ ExpStep("exp1")
  \/ Tick(DutyDeadlines)

SpecQueueRead == queueState /\ [][NextQueueRead]_vars

\* Backfill.  Badges are on offer; users accept, decline and pass, and the
\* reassignment that follows a decline or a pass can throw.  The clock stands.
NextBackfill ==
  \/ Accept
  \/ Decline
  \/ Pass
  \/ ReqStep
  \/ AssignThrow("req")

SpecBackfill == InitOffer /\ [][NextBackfill]_vars

\* ------------------------------------------------------------------ claims
\* the badges a user holds that are offered or active
heldBy(u) == {b \in BadgeIds : badges[b].holder = u /\ Live(b)}

\* C1: in every reachable state no user is the holder of more than one badge
\* whose status is offered or active, across all scopes.
C1_OneLiveBadgePerUser == \A u \in Users : Cardinality(heldBy(u)) <= 1

\* the badge_history rows of a badge
historyOf(b) == {h \in 1 .. Len(history) : history[h].badge = b}

\* C2: every badge is settled at most once: over any interleaving of expiry
\* sweeps and passBadge a badge gets at most one badge_history row (and with
\* it at most one settlement reputation adjustment).
C2_SettledAtMostOnce == \A b \in BadgeIds : Cardinality(historyOf(b)) <= 1

\* C3: once an invitation's response is set (accepted, declined or timeout)
\* no later step changes it; an acceptance that committed is never
\* overwritten by the timeout sweep.
C3_ResponseImmutable ==
  [][\A i \in BadgeIds : invs[i].response # "null" => invs'[i].response = invs[i].response]_vars

\* a sweep (balance check or invitation-timeout sweep) completes in this step
sweepCompletes == \E p \in {"bal", "tmo"} : pc[p] # "idle" /\ pc'[p] = "idle"

\* C4: for every scope, immediately after any sweep completes, the number of
\* badges with status offered or active does not exceed
\* ceil(activeMembers / badgeRatio).
C4_CapacityAfterSweep ==
  [][sweepCompletes => \A s \in Scopes : getActiveBadgeCount(s)' <= desiredBadges(s)']_vars

\* the scope of the badge this step inserts
insertedScope == badges'[Len(badges')].scope

\* C5: concurrent invocations of checkAndAssignBadges for one scope never
\* turn one unit of deficit into two badges: every badge they insert fills a
\* deficit the scope has at the moment of the insert.
C5_InsertFillsDeficit ==
  [][Len(badges') > Len(badges) => getActiveBadgeCount(insertedScope) < desiredBadges(insertedScope)]_vars

\* the status changes of the badge state machine
Transitions ==
  {<<"offered", "active">>, <<"offered", "declined">>, <<"active", "abandoned">>, <<"active", "expired">>}

\* C6: a badge's status changes only along offered->active, offered->declined,
\* active->abandoned and active->expired; declined, expired and abandoned are
\* terminal.
C6_StatusMachine ==
  [][\A b \in BadgeIds : badges'[b].status # badges[b].status
        => <<badges[b].status, badges'[b].status>> \in Transitions]_vars

\* C7: of two decisions on the same content by holders of two different
\* badges only one is recorded: the second finds the flags resolved and
\* writes no mod_actions row.
C7_OneDecisionPerContent ==
  \A i, j \in 1 .. Len(actions) :
     actions[i].content = actions[j].content => actions[i].badge = actions[j].badge

\* C8: a mod_actions row is written and actions_taken is raised only for a
\* badge that is active, and held by the submitter, when the decision commits.
C8_ActionOnlyOnActiveBadge ==
  [][\A b \in BadgeIds : badges'[b].actions > badges[b].actions
        => badges[b].status = "active" /\ badges[b].holder = loc["dec"].user]_vars

\* the request handler is in the reassignment that follows a decline or a pass
inCascade == loc["req"].why \in {"decline", "pass"}

\* C9: a reassignment cascade after a decline or a pass inserts a badge only
\* if the scope still has a deficit; if a concurrent sweep has restored the
\* capacity the cascade creates no badge.
C9_CascadeNeedsDeficit ==
  [][(pc["req"] = "insert" /\ pc'["req"] # "insert" /\ inCascade /\ Len(badges') > Len(badges))
        => getActiveBadgeCount(insertedScope) < desiredBadges(insertedScope)]_vars

\* C10: after a balance sweep that ran undisturbed, the next one, as long as
\* nothing else has happened, creates no badge and no invitation.
C10_SecondSweepCreatesNothing ==
  mark.runs >= 1 => Len(badges) = mark.len /\ Len(invs) = mark.len

\* two undisturbed sweeps in a row have completed, the first of which
\* offered badges, and a scope is still short of badges
C10_TwoSweepsDone ==
  /\ mark.runs = 2
  /\ pc["bal"] = "idle"
  /\ Len(badges) >= 1
  /\ \E s \in Scopes : getActiveBadgeCount(s) < desiredBadges(s)

\* C11: once acceptInvitation has committed, the badge is active and its
\* stored end_date is its stored start_date plus duty_days days, which is
\* also what getUserActiveBadge returns (it reads the row as stored).
C11_EndIsStartPlusDuty ==
  \A b \in BadgeIds :
    badges[b].status = "active" => badges[b].end = endDate(badges[b].start, badges[b].duty)

\* C12: a failure of createBlockchainRecord does not undo an acceptance:
\* when an accept that was waiting for the ledger returns, its invitation is
\* accepted and its badge active.
C12_LedgerNeverBlocksAccept ==
  [][(pc["acc"] = "ledger" /\ pc'["acc"] = "idle")
        => /\ invs'[loc["acc"].cur].response = "accepted"
           /\ badges'[loc["acc"].cur].status = "active"]_vars

\* C13: with the expiry sweep running again and again, every active badge
\* whose end_date has passed is eventually settled (its status leaves
\* active), whatever the ledger and the token transfer answer.
C13_DueBadgeEventuallySettled ==
  \A b \in 1 .. MaxBadges :
    (b \in BadgeIds /\ badges[b].status = "active" /\ badges[b].end <= now)
      ~> (b \in BadgeIds /\ badges[b].status # "active")

\* the timeout sweep stands at the bound of the model: mod_badges is full
tmoAtBound == pc["tmo"] = "select" /\ Len(badges) >= MaxBadges

\* C14: with the timeout sweep running again and again, an invitation that
\* is still unanswered after its expires_at is eventually marked timeout and
\* its badge declined.
C14_ExpiredEventuallyTimedOut ==
  \A b \in 1 .. MaxBadges :
    (b \in BadgeIds /\ invs[b].response = "null" /\ invs[b].expires < now /\ badges[b].status = "offered")
      ~> \/ b \in BadgeIds /\ invs[b].response = "timeout" /\ badges[b].status = "declined"
         \/ tmoAtBound

\* a badge of b's scope that was offered after b's invitation had run out
replacementOf(b) ==
  {n \in BadgeIds : n > b /\ badges[n].scope = badges[b].scope /\ invs[n].invited > invs[b].expires}

\* C15: when a timeout sweep finishes, every invitation it found
\* unanswered after expires_at is marked timeout, its badge is declined, and a
\* new badge has been offered for the same scope.
C15_SweepAlwaysReplaces ==
  [][(pc["tmo"] = "tmoLoop" /\ pc'["tmo"] = "idle")
        => \A b \in tmoPending :
             /\ invs'[b].response = "timeout"
             /\ badges'[b].status = "declined"
             /\ replacementOf(b) # {}]_vars

\* a balance check has run to its end
balanceChecked == pc["bal"] = "idle" /\ Len(badges) > 0

\* the offered and active badges of a scope are D = ceil(members / ratio):
\* the least n with n * ratio >= members
atCapacity(s) ==
  LET n == Cardinality({b \in BadgeIds : badges[b].scope = s /\ Live(b)})
  IN /\ n * config[s].badgeRatio >= getActiveMemberCount(s)
     /\ (n - 1) * config[s].badgeRatio < getActiveMemberCount(s)

\* each badge has an invited user of its own, and an invitation that expires
\* 12 hours after it was created
offersWellFormed ==
  /\ \A b, c \in BadgeIds : b # c => invs[b].user # invs[c].user
  /\ \A b \in BadgeIds :
       /\ invs[b].user = badges[b].holder
       /\ invs[b].expires = invs[b].invited + INVITATION_TIMEOUT_HOURS

\* C16 as stated: once a balance check that found no badge has run, every
\* scope has exactly D badges, each with its own invited user and a 12-hour
\* invitation.
C16_CheckCreatesExactlyD ==
  balanceChecked => offersWellFormed /\ \A s \in Scopes : atCapacity(s)

\* C16: once a balance check that found no badge has run, every scope has
\* exactly D badges unless it has fewer and no user is eligible for it any
\* more; each badge has its own invited user and a 12-hour invitation.
C16_CheckCreatesDWhenEligible ==
  balanceChecked =>
    /\ offersWellFormed
    /\ \A s \in Scopes :
         \/ atCapacity(s)
         \/ /\ getActiveBadgeCount(s) < desiredBadges(s)
            /\ getEligibleUsers(s, configOf(s)) = {}

\* a balance check has run and has given g1 the two badges it wants
C16_TwoBadgesForG1 ==
  /\ balanceChecked
  /\ getActiveMemberCount("g1") = 3
  /\ Cardinality({b \in BadgeIds : badges[b].scope = "g1" /\ badges[b].status = "offered"}) = 2
  /\ atCapacity("g1")

\* the expiry sweep commits its turn for a selected row
settles(row) ==
  /\ pc["exp1"] = "expLoop"
  /\ row \in loc["exp1"].rows
  /\ row \notin loc'["exp1"].rows
  /\ badges'[row.id].status # badges[row.id].status

\* badge b is active and its end_date has passed
due(b) == badges[b].status = "active" /\ badges[b].end <= now

\* C17: when the expiry sweep settles an active badge whose end_date has
\* passed and whose actions_taken has reached min_actions_required, the badge
\* becomes expired, one badge_history row (completed) is appended, the
\* holder's reputation grows by the reward, and a token transfer is started.
C17_QuotaMetIsRewarded ==
  [][\A row \in loc["exp1"].rows :
       (settles(row) /\ due(row.id) /\ badges[row.id].actions >= badges[row.id].minActions)
         => /\ badges'[row.id].status = "expired"
            /\ history' = Append(history, historyRow(row.id, "completed"))
            /\ rep'[badges[row.id].holder] = rep[badges[row.id].holder] + COMPLETION_REPUTATION
            /\ Len(xfers') = Len(xfers) + 1
            /\ xfers'[Len(xfers')].badge = row.id]_vars

\* the sweep's turn for a badge that is active, past its end_date and short
\* of min_actions_required
settlesShort(row) ==
  settles(row) /\ due(row.id) /\ badges[row.id].actions < badges[row.id].minActions

\* the history row, the penalty and the absence of a token transfer
penalised(row) ==
  /\ history' = Append(history, historyRow(row.id, "abandoned"))
  /\ rep'[badges[row.id].holder] = rep[badges[row.id].holder] - 3
  /\ xfers' = xfers

\* C18 as stated: when the expiry sweep settles an active badge whose
\* end_date has passed and whose actions_taken is below min_actions_required,
\* the badge's status becomes abandoned, the holder's reputation drops by 3
\* and no token transfer is started.
C18_ShortBadgeStatusAbandoned ==
  [][\A row \in loc["exp1"].rows :
       settlesShort(row) => badges'[row.id].status = "abandoned" /\ penalised(row)]_vars

\* C18: when the expiry sweep settles an active badge whose end_date has
\* passed and whose actions_taken is below min_actions_required, the badge's
\* status becomes expired, a badge_history row (abandoned) is appended, the
\* holder's reputation drops by 3 and no token transfer is started.
C18_ShortBadgeExpiredAsAbandoned ==
  [][\A row \in loc["exp1"].rows :
       settlesShort(row) => badges'[row.id].status = "expired" /\ penalised(row)]_vars

\* a badge with 2 of 5 actions has been settled
C18_ShortBadgeSettled ==
  /\ Len(history) = 1
  /\ history[1].outcome = "abandoned"
  /\ badges[history[1].badge].actions = 2
  /\ badges[history[1].badge].status = "expired"
  /\ rep[history[1].user] = -3
  /\ xfers = <<>>

\* submitModerationDecision returns
decisionReturns == pc["dec"] = "decide" /\ pc'["dec"] = "idle"

\* everything the decision writes is committed
decisionCommitted ==
  LET l == loc["dec"]
  IN /\ actions' = Append(actions, [badge |-> l.cur, content |-> l.content, action |-> l.act,
                                     flags |-> unresolved[l.content]])
     /\ hidden'[l.content] = (hidden[l.content] \/ l.act = "remove")
     /\ rep'[authorOf(l.content)] = rep[authorOf(l.content)] - (IF l.act = "remove" THEN 1 ELSE 0)
     /\ unresolved'[l.content] = 0
     /\ badges'[l.cur].actions = badges[l.cur].actions + 1

\* nothing the decision writes is committed
decisionUndone == UNCHANGED <<actions, hidden, rep, unresolved, badges>>

\* C19: submitModerationDecision is all-or-nothing: when it returns, the
\* mod_actions row with the flag count, the hiding and the author's penalty
\* (for remove), the resolution of the flags and the +1 on actions_taken are
\* all committed, or none of them is.
C19_DecisionAllOrNothing ==
  [][decisionReturns => (decisionCommitted \/ decisionUndone)]_vars

\* a remove decision has been committed
C19_RemoveCommitted ==
  /\ Len(actions) = 1
  /\ actions[1].action = "remove"
  /\ actions[1].flags = 2
  /\ hidden[actions[1].content]
  /\ rep[authorOf(actions[1].content)] = -1
  /\ unresolved[actions[1].content] = 0
  /\ badges[actions[1].badge].actions = 1

\* a transferToken call for badge b fails in this step
transferFails(b) == xfers' = Append(xfers, [badge |-> b, ok |-> FALSE])

\* C20: when the token transfer fails while a completed badge is being
\* settled, the badge still commits as expired, with its badge_history row
\* (completed) and its reputation credit.
C20_TransferFailureKeepsSettlement ==
  [][\A b \in BadgeIds :
       transferFails(b)
         => /\ badges'[b].status = "expired"
            /\ history' = Append(history, historyRow(b, "completed"))
            /\ rep'[badges[b].holder] = rep[badges[b].holder] + 5]_vars

\* a completed badge has been settled although its token transfer failed
C20_SettledWithoutTransfer ==
  /\ Len(xfers) = 1
  /\ ~ xfers[1].ok
  /\ badges[xfers[1].badge].status = "expired"
  /\ badges[xfers[1].badge].actions >= badges[xfers[1].badge].minActions
  /\ Len(history) = 1
  /\ history[1].outcome = "completed"
  /\ rep[history[1].user] = 5

\* the expiry sweep e takes its turn for a selected row
turnOf(e, row) == pc[e] = "expLoop" /\ row \in loc[e].rows /\ row \notin loc'[e].rows

\* what the sweep has logged for the turn it just took
logged(e) == loc'[e].log[Len(loc'[e].log)].result

\* C21: within one expiry sweep, a turn that fails leaves nothing behind (the
\* badge's status, badge_history and the reputations are as before) and costs
\* no other selected badge its turn; a turn that does not fail leaves its
\* badge expired, with one more badge_history row.
C21_FailureStaysWithItsBadge ==
  [][\A e \in {"exp1", "exp2"} : \A row \in loc[e].rows :
       turnOf(e, row) =>
         /\ pc'[e] = "expLoop"
         /\ loc'[e].rows = loc[e].rows \ {row}
         /\ logged(e) = "error" => UNCHANGED <<badges, history, rep, xfers>>
         /\ logged(e) = "settled" =>
              /\ badges'[row.id].status = "expired"
              /\ Len(history') = Len(history) + 1
              /\ history'[Len(history')].badge = row.id]_vars

\* a sweep whose turn for badge 1 failed has then settled badge 2
C21_SettledAfterFailure ==
  /\ pc["exp1"] = "expLoop"
  /\ loc["exp1"].log = << [badge |-> 1, result |-> "error"], [badge |-> 2, result |-> "settled"] >>
  /\ badges[1].status = "active"
  /\ badges[2].status = "expired"
  /\ historyOf(1) = {}
  /\ Cardinality(historyOf(2)) = 1
  /\ rep[badges[1].holder] = 0

\* C22: an error while the balance check processes a scope, or while the
\* timeout sweep processes an expired invitation, stays with that item: the
\* balance check goes on with its next scope; the timeout sweep goes on with
\* the invitations that are left, and what it did for the others is committed.
C22_ItemErrorStaysWithItem ==
  [][/\ AssignThrow("bal") =>
          (Len(loc["bal"].todo) > 1 =>
             pc'["bal"] = "count" /\ loc'["bal"].scope = loc["bal"].todo[2])
     /\ AssignThrow("tmo") =>
          /\ loc["tmo"].rows # {} => pc'["tmo"] = "tmoLoop"
          /\ \A i \in tmoPending \ {loc["tmo"].cur} :
                invs'[i].response = "timeout" /\ badges'[i].status = "declined"]_vars

\* the batch review pushes a result in this step
pushes == Len(loc'["bat"].log) = Len(loc["bat"].log) + 1

\* the decision whose turn it is, and the result pushed for it
turnDecision == loc["bat"].todo[loc["bat"].idx]

pushed == loc'["bat"].log[Len(loc'["bat"].log)]

\* C23: a batch review takes its decisions one by one, in the order given,
\* and pushes one result for each: when it answers there are as many results
\* as decisions.  A decision that fails writes nothing and is pushed as
\* failed, one that succeeds is committed; either way the next decision gets
\* its turn and what earlier decisions wrote stays.
C23_BatchItemsIndependent ==
  /\ [](pc["bat"] # "idle" =>
          /\ Len(loc["bat"].log) = loc["bat"].idx - 1
          /\ loc["bat"].idx <= Len(loc["bat"].todo) + 1
          /\ \A i \in 1 .. Len(loc["bat"].log) : loc["bat"].log[i].content = loc["bat"].todo[i].content)
  /\ [][pushes =>
          /\ pc'["bat"] = "batLoop"
          /\ loc'["bat"].todo = loc["bat"].todo
          /\ loc'["bat"].idx = loc["bat"].idx + 1
          /\ pushed.content = turnDecision.content
          /\ ~ pushed.success => UNCHANGED <<dbvars, events>>
          /\ pushed.success =>
               /\ actions' = Append(actions, actionRow(loc["bat"].cur, turnDecision.content, turnDecision.action,
                                                        unresolved[turnDecision.content]))
               /\ badges'[loc["bat"].cur].actions = badges[loc["bat"].cur].actions + 1
               /\ unresolved'[turnDecision.content] = 0
               /\ hidden'[turnDecision.content] = (hidden[turnDecision.content] \/ turnDecision.action = "remove")]_vars

\* a batch of two is about to answer: its first decision failed and wrote
\* nothing, its second, a remove, is committed
C23_SecondOfTwoCommitted ==
  /\ pc["bat"] = "batLoop"
  /\ loc["bat"].idx = 3
  /\ loc["bat"].log = << batchResult(loc["bat"].todo[1], FALSE), batchResult(loc["bat"].todo[2], TRUE) >>
  /\ Len(actions) = 1
  /\ actions[1].action = "remove"
  /\ hidden["c1"]
  /\ badges[loc["bat"].cur].actions = 1

\* the accept's SELECT answers in this step
acceptAnswers == pc["acc"] = "begun" /\ pc'["acc"] # "begun"

\* why the request of the open accept cannot be granted; the invitation has
\* expired when its expires_at is not after the time of the request
notInvited == invs[loc["acc"].cur].user # loc["acc"].user

alreadyAnswered == invs[loc["acc"].cur].response # "null"

hasExpired == invs[loc["acc"].cur].expires <= loc["acc"].at

notOffered == badges[loc["acc"].cur].status # "offered"

\* C24: acceptInvitation throws and changes no badge and no invitation when
\* the caller is not the invited user, when the invitation has a response,
\* when it has expired, or when the badge is no longer offered.
C24_InvalidAcceptFails ==
  [][(acceptAnswers /\ (notInvited \/ alreadyAnswered \/ hasExpired \/ notOffered))
        => pc'["acc"] = "idle" /\ UNCHANGED <<dbvars, events, tmoPending>>]_vars

\* the invited user asks to accept an unanswered invitation, for a badge
\* still on offer, after its expires_at
C24_LateAcceptAsked ==
  /\ pc["acc"] = "begun"
  /\ ~ notInvited /\ ~ alreadyAnswered /\ ~ notOffered
  /\ hasExpired
  /\ ~ Locked(loc["acc"].cur)

\* passBadge commits in this step
passes == pc["req"] = "idle" /\ pc'["req"] # "idle" /\ loc'["req"].why = "pass"

\* the badge a step sets to abandoned
passedBadges == {b \in BadgeIds : badges[b].status # "abandoned" /\ badges'[b].status = "abandoned"}

\* C25: passBadge goes through only for the holder of an active badge; it
\* sets that badge to abandoned, appends one badge_history row (abandoned)
\* and changes the holder's reputation by what the settlement's abandoned path
\* applies for the badge's scope, the scope's configured penalty.
C25_PassDebitsScopePenalty ==
  [][passes =>
       /\ Cardinality(passedBadges) = 1
       /\ \A b \in passedBadges :
            /\ badges[b].status = "active"
            /\ history' = Append(history, historyRow(b, "abandoned"))
            /\ rep'[badges[b].holder] =
                 rep[badges[b].holder] + penaltyReputation(configOf(badges[b].scope))]_vars

\* C26: a badge and its invitation are created together: in every state
\* each offered badge has its one invitation, unanswered, for the badge's
\* holder, expiring 12 hours after it was created, and a duty_days between 3
\* and 7.
C26_OfferedBadgeWellFormed ==
  /\ Len(invs) = Len(badges)
  /\ \A b \in BadgeIds :
       badges[b].status = "offered" =>
         /\ invs[b].response = "null"
         /\ invs[b].user = badges[b].holder
         /\ invs[b].expires = invs[b].invited + 12
         /\ badges[b].duty \in 3 .. 7

\* a badge with the longest duty period is on offer next to one whose
\* invitation has timed out
C26_LongestDutyOffered ==
  /\ \E b \in BadgeIds : badges[b].status = "offered" /\ badges[b].duty = 7 /\ invs[b].invited > 0
  /\ \E c \in BadgeIds : badges[c].status = "declined" /\ invs[c].response = "timeout"

\* the conditions of eligibility for a scope, on the rows as they are
meets(u, s) ==
  /\ users[u].mode
  /\ rep[u] >= configOf(s).minReputation
  /\ (now - users[u].created) \div 24 >= configOf(s).minAccountAgeDays
  /\ heldBy(u) = {}
  /\ \A h \in 1 .. Len(history) :
       (history[h].user = u /\ history[h].scope = s) => history[h].at <= now - 14 * 24
  /\ users[u].seen > now - 30 * 24

\* C27: a badge is offered only to a user of the answer of the eligibility
\* query, and every user of the answer meets, when the query runs, all the
\* conditions of the scope: not in Soul mode, reputation and account age at
\* the scope's minimum or above, no offered or active badge anywhere, no
\* badge_history row in the scope for 14 days, seen in the last 30 days.
C27_OfferedUserWasEligible ==
  [][\A p \in {"bal", "req", "tmo"} :
       /\ (pc[p] = "select" /\ pc'[p] = "insert")
            => \A u \in loc'[p].eligible : meets(u, loc[p].scope)
       /\ (pc[p] = "insert" /\ pc'[p] # "insert" /\ Len(badges') > Len(badges))
            => /\ badges'[Len(badges')].holder \in loc[p].eligible
               /\ badges'[Len(badges')].scope = loc[p].scope]_vars

\* one user is in Soul mode, one has passed a badge of g1, and the badge that
\* replaces it is on offer to the third
C27_OfferAmongUnfit ==
  /\ \E u \in Users : ~ users[u].mode
  /\ Len(history) = 1
  /\ history[1].scope = "g1"
  /\ rep[history[1].user] < 0
  /\ \E b \in BadgeIds :
       /\ b > history[1].badge
       /\ badges[b].scope = "g1"
       /\ badges[b].status = "offered"
       /\ users[badges[b].holder].mode
       /\ badges[b].holder # history[1].user

\* process p's assignNewBadge gets the answer of its eligibility query in
\* this step, and no user is eligible
attemptWithNoneEligible(p) ==
  /\ pc[p] = "select"
  /\ pc'[p] # "select" \/ loc'[p] # loc[p]
  /\ getEligibleUsers(loc[p].scope, loc[p].cfg) = {}

\* C28: an assignment attempt for a scope with no eligible user creates no
\* badge and no invitation, publishes no event and throws nothing: it
\* returns to its caller, which goes on, and mod_badges and badge_invitations
\* are as they were.
C28_NoneEligibleNoBadge ==
  [][\A p \in {"bal", "req", "tmo"} :
       attemptWithNoneEligible(p) =>
         /\ UNCHANGED <<badges, invs, events, tmoPending>>
         /\ pc'[p] = AfterAssign(p, loc[p]).pc
         /\ loc'[p] = AfterAssign(p, loc[p]).loc]_vars

\* the timeout sweep has asked for a replacement for a scope with no
\* eligible user: it is back in its loop with nothing offered
C28_SweepGoesOnWithout ==
  /\ pc["tmo"] = "tmoLoop"
  /\ loc["tmo"].cur \in tmoPending
  /\ loc["tmo"].log = <<>>
  /\ getEligibleUsers(badges[loc["tmo"].cur].scope, configOf(badges[loc["tmo"].cur].scope)) = {}
  /\ Len(badges) = 2

\* C29: a decision that commits is about content that at that moment has
\* an unresolved flag within the scope of the deciding badge; nothing is
\* hidden, no reputation lowered and no actions_taken raised by a decision on
\* other content, or by a second decision on content already decided.
C29_DecisionNeedsOpenFlag ==
  [][(decisionReturns /\ Len(actions') > Len(actions))
        => /\ unresolved[loc["dec"].content] > 0
           /\ inQueueScope(loc["dec"].content, badges[loc["dec"].cur].scope)]_vars

\* the badges the running timeout sweep has offered as replacements
sweepOffered == {loc["tmo"].log[k].badge : k \in 1 .. Len(loc["tmo"].log)}

\* C30: a timeout sweep that fails and rolls back leaves nothing behind: no
\* badge and no invitation it created as a replacement stays, and no
\* badge:timeout event is out for an invitation whose timeout it rolled back.
C30_FailedSweepLeavesNothing ==
  [][AssignThrow("tmo") =>
       /\ \A b \in sweepOffered : b \notin DOMAIN badges' /\ b \notin DOMAIN invs'
       /\ \A i \in tmoPending : event("badge:timeout", i) \notin events']_vars

\* the holder's reputation before the pass of badge b: in a run where
\* reputation starts at 0 and changes by passes only, 3 off for every other
\* badge the holder has passed
repBeforePass(u, b) ==
  0 - 3 * Cardinality({h \in 1 .. Len(history) : history[h].user = u /\ history[h].badge # b})

\* C31: when declineInvitation or passBadge throws to its caller, also from
\* the reassignment that follows its commit, the decline or pass has not
\* taken effect: the badge is still offered with its invitation unanswered,
\* or still active with no badge_history row and the holder's reputation as
\* it was.
C31_ErrorMeansNoEffect ==
  [][(AssignThrow("req") /\ inCascade) =>
       LET b == loc["req"].cur
       IN /\ loc["req"].why = "decline" =>
               badges'[b].status = "offered" /\ invs'[b].response = "null"
          /\ loc["req"].why = "pass" =>
               /\ badges'[b].status = "active"
               /\ \A h \in 1 .. Len(history') : history'[h].badge # b
               /\ rep'[loc["req"].user] = repBeforePass(loc["req"].user, b)]_vars

\* process p commits the offer of a new badge in this step, as the backfill
\* for a decline or for an invitation that timed out
backfills(p) ==
  /\ pc[p] = "insert"
  /\ pc'[p] # "insert"
  /\ Len(badges') > Len(badges)
  /\ p = "req" => loc[p].why = "decline"

\* C32: the backfill offer created by a decline, or by the timeout sweep for
\* an invitation that timed out, goes to another user than the one who
\* declined or timed out.
C32_BackfillGoesToAnother ==
  [][\A p \in {"req", "tmo"} :
       backfills(p) => badges'[Len(badges')].holder # invs[loc[p].cur].user]_vars

decisionRows(b) == {i \in 1 .. Len(actions) : actions[i].badge = b}

\* a decision commits in this step: a single one, or one of a batch
decisionCommits == Len(actions') = Len(actions) + 1

\* C34: for every badge actions_taken equals the number of its keep and
\* remove rows in mod_actions; a decision that commits raises it by exactly
\* 1, also when decisions for the same badge overlap, and no other step
\* changes it.
C34_CountMatchesRows ==
  /\ [](\A b \in BadgeIds : badges[b].actions = Cardinality(decisionRows(b)))
  /\ [][\A b \in BadgeIds :
          /\ (decisionCommits /\ actions'[Len(actions')].badge = b)
                => badges'[b].actions = badges[b].actions + 1
          /\ badges'[b].actions # badges[b].actions
                => decisionCommits /\ actions'[Len(actions')].badge = b]_vars

\* a single decision for a badge is under way, and since its badge check a
\* decision of a batch for the same badge has been committed
C34_OverlappingDecisions ==
  /\ pc["dec"] = "decide"
  /\ pc["bat"] = "batLoop"
  /\ loc["bat"].cur = loc["dec"].cur
  /\ Len(loc["bat"].log) = 1
  /\ loc["bat"].log[1].success
  /\ \E row \in loc["dec"].rows : badges[row.id].actions = row.actions + 1

\* user u has a badge_history row in scope s (a badge settled by the expiry
\* sweep, or passed) that is less than 14 days old
inCooldown(u, s) ==
  \E h \in 1 .. Len(history) :
    history[h].user = u /\ history[h].scope = s /\ history[h].at + 14 * 24 > now

\* C35: a user whose badge in a scope was settled or passed at time t is
\* not offered another badge in that scope before t + 14 days (an offer in
\* another scope is not held back by that history).
C35_NoOfferInCooldown ==
  [][Len(badges') > Len(badges)
       => ~ inCooldown(badges'[Len(badges')].holder, badges'[Len(badges')].scope)]_vars

\* declineInvitation commits for badge b in this step
declines(b) == invs[b].response = "null" /\ invs'[b].response = "declined"

\* C36: declineInvitation goes through only where acceptInvitation would:
\* for the invited user, on an unanswered invitation that has not expired,
\* for a badge on offer; it then sets the response to declined and the badge
\* to declined.
C36_DeclineValidatesAsAccept ==
  [][\A b \in BadgeIds :
       declines(b) =>
         /\ validInvitation(loc'["req"].user, b)
         /\ badges'[b].status = "declined"]_vars

\* C37: whatever amounts a scope's configuration holds, 0 included, the
\* settlement of a badge changes the holder's reputation by exactly the
\* configured reward (quota met) or the configured penalty (quota not met),
\* and starts no token transfer when the configured token reward is 0; the
\* defaults stand in only for a scope that has no configuration.
C37_ConfiguredAmountsApplied ==
  [][\A row \in loc["exp1"].rows :
       settles(row) =>
         LET b == row.id
             u == badges[b].holder
             cfg == configOf(badges[b].scope)
         IN /\ badges[b].actions >= badges[b].minActions =>
                 /\ rep'[u] = rep[u] + cfg.rewardReputation
                 /\ cfg.rewardPco = 0 => xfers' = xfers
            /\ badges[b].actions < badges[b].minActions =>
                 rep'[u] = rep[u] + cfg.penaltyReputation]_vars

\* handler p takes a step
steps(p) == pc[p] # "idle" /\ (pc'[p] # pc[p] \/ loc'[p] # loc[p])

\* what a cascade has left to do at most: for the reassignment after a
\* decline or a pass two steps for each badge still needed (the count gives at
\* most one badge per user); for the timeout sweep three steps for each
\* invitation it has still to mark
stepsLeft(p, at, l) ==
  IF p = "req"
    THEN CASE at = "idle" -> 0
           [] at = "count" -> 2 * Cardinality(Users) + 1
           [] at = "select" -> 2 * l.needed
           [] at = "insert" -> 2 * l.needed - 1
    ELSE CASE at = "idle" -> 0
           [] at = "tmoLoop" -> 3 * Cardinality(l.rows) + 1
           [] at = "select" -> 3 * Cardinality(l.rows) + 3
           [] at = "insert" -> 3 * Cardinality(l.rows) + 2

\* the badges that have been declined (by a decline or a timeout) or passed
givenUp == {b \in BadgeIds : badges[b].status \in {"declined", "abandoned"}}

\* the handler stands at the bound of the model: mod_badges is full
cascadeAtBound(p) == pc[p] = "select" /\ Len(badges) >= MaxBadges

needsConnection(p) ==
  \/ pc[p] \in {"count", "select"}
  \/ pc[p] = "tmoLoop" /\ loc[p].rows # {}

\* C39: with a pool of N connections, N callers at a time (a decline or a
\* pass with its reassignment, the timeout sweep, the balance check's
\* assignment) all complete: the pool
\* is never used up by callers that each hold a connection and wait for
\* another, and every handler that has started returns.
C39_PoolCallersComplete ==
  /\ [](poolFree = 0 => \E p \in {"bal", "req", "tmo"} : poolHeld(p) > 0 /\ ~ needsConnection(p))
  /\ \A p \in {"bal", "req", "tmo"} : (pc[p] # "idle") ~> (pc[p] = "idle" \/ cascadeAtBound(p))

\* the queue query answers in this step, and what it answers
queueAnswered == pc["que"] = "queue" /\ pc'["que"] = "done"

answer == loc'["que"].todo

\* the content with an unresolved flag in the scope of the badge asked for
openInScope ==
  {c \in DOMAIN unresolved : unresolved[c] > 0 /\ inQueueScope(c, badges[loc["que"].cur].scope)}

\* the answer holds exactly the open items of the scope, each once
answerIsOpenItems ==
  /\ {answer[i] : i \in 1 .. Len(answer)} = openInScope
  /\ Len(answer) = Cardinality(openInScope)

\* the time of the oldest and of the newest unresolved flag of a content
oldestFlag(c) == flagTimes(c)[1]

newestFlag(c) == flagTimes(c)[Len(flagTimes(c))]

\* the caller of the badge check holds the badge, and it is active
callerHoldsActive(u, b) == badges[b].holder = u /\ badges[b].status = "active"

\* the badge check lets the holder of the active badge through and throws
\* for every other caller
checkGuards ==
  pc["que"] = "idle" /\ pc'["que"] # "idle" =>
    /\ callerHoldsActive(loc'["que"].user, loc'["que"].cur) <=> pc'["que"] = "queue"
    /\ pc'["que"] = "done" => loc'["que"].why = "error" /\ loc'["que"].todo = <<>>

====
